---- MODULE Spec2Model ----
(***************************************************************************)
(* mcp-local-rag: the document extraction and incremental indexing         *)
(* subsystem (src/mcp_local_rag/processing/extractors.py,                  *)
(* tools/indexing.py, storage/metadata.py, storage/vectors.py).            *)
(*                                                                         *)
(* The program runs on one asyncio event loop: a coroutine runs without    *)
(* interruption from one await that suspends to the next.  Each action     *)
(* below is one such uninterrupted stretch of code.  The stores (SQLite    *)
(* metadata and page cache, Qdrant vectors) are on disk and survive the    *)
(* process; a store call may raise, and the process may be killed between  *)
(* two store calls.                                                        *)
(***************************************************************************)
EXTENDS Integers, Sequences, FiniteSets, TLC

VARIABLES
    fs,             \* path -> [hash, mtime]: the files on disk
    gemini_client,  \* AppContext.gemini_client is configured (not None)
    records,        \* documents table: doc_id -> <<>> or <<DocumentInfo>>
    vstore,         \* Qdrant points: doc_id -> sequence of chunk payloads
    cache,          \* page_cache table: hash -> page -> <<>> or <<text>>
    task,           \* the _index_single_file coroutines
    units,          \* the OCR tasks of each coroutine, by page
    completion,     \* per coroutine: pages in the order their OCR task ended
    reply,          \* what the last index_files or remove_documents call returned
    collections,    \* collections table: the names of the collections
    azure_di_client,\* AppContext.azure_di_client is configured (not None)
    di              \* an AnalyzeResult of Azure DI and the text rebuilt from it

vars ==
    <<fs, gemini_client, records, vstore, cache, task, units, completion, reply,
      collections, azure_di_client, di>>

(***************************************************************************)
(* Bounds of the model.                                                    *)
(***************************************************************************)
MaxMtime == 2       \* modification times are 1..MaxMtime
GeminiPermits == 1  \* MCP_LOCAL_RAG_MAX_CONCURRENT_GEMINI of the run
MaxRetryAfter == 1  \* Retry-After values are at most MaxRetryAfter seconds
MaxConcurrentFiles == 1  \* MCP_LOCAL_RAG_MAX_CONCURRENT_FILES of the run
MaxTables == 3   \* tables of an analysis result
TextLen == 5     \* characters of the text of an analysis result
MaxSpanLen == 2  \* characters of a table's span

(***************************************************************************)
(* Program constants.                                                      *)
(***************************************************************************)
max_retries == 2

Tasks == {1, 2}
Paths == {"a.pdf", "b.pdf"}
Collections == {"c"}

\* the collections of the calls that work on more than one
AllCollections == {"c", "d"}
Hashes == {"H1", "H2"}
Methods == {"auto", "azure", "gemini", "pymupdf"}

\* a path with no file behind it, and the path of a file whose suffix is
\* not one of the supported ones
NoFile == "gone.pdf"
OtherFile == "notes.xyz"

\* Path.exists
file_exists(p) == p # NoFile

\* is_supported_file: the suffix is a supported one
is_supported_file(p) == p # OtherFile

\* the methods that convert page by page
Hybrid == {"auto", "gemini"}

\* The pages of a file by content hash: "text" pages carry a text layer,
\* "scan" pages are images (no extractable text, should_ocr_page is true).
PageLayout(h) == IF h = "H1" THEN <<"text", "scan">> ELSE <<"scan">>

page_count(h) == Len(PageLayout(h))

PageIdx(h) == 0 .. (page_count(h) - 1)

AllPages == UNION {PageIdx(h) : h \in Hashes}

should_ocr_page(h, i) == PageLayout(h)[i + 1] = "scan"

(***************************************************************************)
(* Text.  A text is a sequence of tokens; SEP is the "\n\n" separator.     *)
(***************************************************************************)
Tok(src, h, i) == [src |-> src, h |-> h, i |-> i]

SEP == [src |-> "sep", h |-> "", i |-> 0]

None == <<>>

Some(x) == <<x>>

\* pymupdf4llm.to_markdown(pages=[i], use_ocr=False): the text layer of page i
to_markdown_page(h, i) ==
    IF PageLayout(h)[i + 1] = "text" THEN <<Tok("pymupdf", h, i)>> ELSE <<>>

\* The provider's answer for page i of a file with bytes h
gemini_text(h, i) == <<Tok("gemini", h, i)>>

RECURSIVE JoinFrom(_, _)
JoinFrom(texts, k) ==
    IF k > Len(texts) THEN <<>>
    ELSE IF k = Len(texts) THEN texts[k]
    ELSE texts[k] \o <<SEP>> \o JoinFrom(texts, k + 1)

\* "\n\n".join(md_text)
Join(texts) == JoinFrom(texts, 1)

\* pymupdf4llm.to_markdown(doc) of the whole document
to_markdown_doc(h) == Join([k \in 1 .. page_count(h) |-> to_markdown_page(h, k - 1)])

IsBlank(text) == \A k \in 1 .. Len(text) : text[k] = SEP

NotSep(tok) == tok # SEP

\* chunk_text: nothing for blank text, else the splitter's chunks
chunk_text(text) == IF IsBlank(text) THEN <<>> ELSE SelectSeq(text, NotSep)

\* a doc_id made from the path alone, a variant of the function below
make_doc_id_of_path(file_path, collection) == <<"c", file_path>>

\* sha256(collection NUL file_path)[:16]: a function of the pair, one id per
\* pair
make_doc_id(file_path, collection) == <<collection, file_path>>

Docs == {make_doc_id(p, c) : p \in Paths, c \in AllCollections}

(***************************************************************************)
(* Faulty variants of store and extraction operations.  A property that    *)
(* depends on an operation fails when the variant stands in for it.        *)
(***************************************************************************)
\* a delete that deletes nothing
delete_document_chunks_keep(vs, doc_id) == vs

\* an insert whose row key is taken from the content and not from the pair
add_document_by_hash(recs, doc) ==
    [recs EXCEPT ![<<doc.collection, IF doc.file_hash = "H1" THEN "a.pdf" ELSE "b.pdf">>]
                     = Some(doc)]

\* a converter choice that takes the method's word without looking for the
\* client
use_gemini_unchecked(method, client, h, i) ==
    IF method = "gemini" THEN TRUE
    ELSE IF method = "auto" THEN should_ocr_page(h, i)
    ELSE FALSE

\* a lookup that finds no row
get_document_by_path_none(recs, file_path, collection) == None

\* an update that matches no row
update_document_mtime_noop(recs, doc_id, file_mtime) == recs

\* a cache lookup that always misses
get_cached_page_miss(pc, file_hash, page_index) == None

\* a cache write that is lost
cache_page_drop(pc, file_hash, page_index, content) == pc

\* a cache write that always goes to the entry of the first page
cache_page_first(pc, file_hash, page_index, content) ==
    [pc EXCEPT ![file_hash][0] = Some(content)]

\* a collections table whose deletes do not cascade to the documents
delete_collection_cascade_off(recs, name) == recs

\* a DELETE that removes no row
remove_document_noop(recs, doc_id) == recs

\* a cache clear that deletes nothing
clear_page_cache_noop(pc, file_hash) == pc

\* a cache clear that leaves the first page's entry
clear_page_cache_keep_first(pc, file_hash) ==
    [pc EXCEPT ![file_hash] = [i \in DOMAIN @ |-> IF i = 0 THEN @[i] ELSE <<>>]]

\* a row count taken over the whole table instead of the rows of the hash
clear_page_cache_rowcount_table(pc, file_hash) ==
    Cardinality({<<h, i>> \in Hashes \X AllPages : pc[h][i] # <<>>})

\* results in the order the tasks ended (asyncio.as_completed)
gather_as_completed(us, pages, done_order) ==
    [k \in 1 .. Len(pages) |-> us[done_order[k]]]

\* an assembly that reports the first failed page only
RECURSIVE assemble_first_failure(_, _, _, _)
assemble_first_failure(md, results, k, j) ==
    IF k > Len(md) THEN [md_text |-> <<>>, failed_pages |-> <<>>]
    ELSE IF md[k].kind = "task"
    THEN LET rest == assemble_first_failure(md, results, k + 1, j + 1) IN
         IF results[j].st = "exc"
         THEN [md_text |-> <<(<<>>)>> \o rest.md_text, failed_pages |-> <<k>>]
         ELSE [md_text |-> <<results[j].result[1]>> \o rest.md_text,
               failed_pages |-> rest.failed_pages]
    ELSE LET rest == assemble_first_failure(md, results, k + 1, j) IN
         [md_text |-> <<md[k].text>> \o rest.md_text,
          failed_pages |-> rest.failed_pages]

\* an assembly that takes a failed page for a blank one and reports none
RECURSIVE assemble_blank_failures(_, _, _, _)
assemble_blank_failures(md, results, k, j) ==
    IF k > Len(md) THEN [md_text |-> <<>>, failed_pages |-> <<>>]
    ELSE IF md[k].kind = "task"
    THEN LET rest == assemble_blank_failures(md, results, k + 1, j + 1) IN
         [md_text |-> <<(IF results[j].st = "exc" THEN <<>> ELSE results[j].result[1])>>
                         \o rest.md_text,
          failed_pages |-> <<>>]
    ELSE LET rest == assemble_blank_failures(md, results, k + 1, j) IN
         [md_text |-> <<md[k].text>> \o rest.md_text, failed_pages |-> <<>>]

\* an assembly that keeps no text of its own for a cached or locally
\* converted page and reads it back from the page cache at the end
RECURSIVE assemble_from_cache(_, _, _, _)
assemble_from_cache(md, results, k, j) ==
    IF k > Len(md) THEN [md_text |-> <<>>, failed_pages |-> <<>>]
    ELSE IF md[k].kind = "task"
    THEN LET rest == assemble_from_cache(md, results, k + 1, j + 1) IN
         IF results[j].st = "exc"
         THEN [md_text |-> <<(<<>>)>> \o rest.md_text,
               failed_pages |-> <<k>> \o rest.failed_pages]
         ELSE [md_text |-> <<results[j].result[1]>> \o rest.md_text,
               failed_pages |-> rest.failed_pages]
    ELSE LET rest == assemble_from_cache(md, results, k + 1, j)
             entry == IF md[k].text = <<>> THEN <<>>
                      ELSE cache[md[k].text[1].h][k - 1]
         IN  [md_text |-> <<(IF entry = <<>> THEN <<>> ELSE entry[1])>> \o rest.md_text,
              failed_pages |-> rest.failed_pages]

\* a semaphore of its own for every indexing call
semaphore_holders_own(t) ==
    {tp \in Tasks \X AllPages : tp[1] = t /\ units[tp[1]][tp[2]].st = "call"}

\* a permit kept through the backoff sleep (the except inside the async with)
semaphore_holders_asleep(t) ==
    {tp \in Tasks \X AllPages : units[tp[1]][tp[2]].st \in {"call", "sleep"}}

\* a retry controller without a budget: every 429 is slept on
handle_error_no_budget(err, attempt) ==
    IF err.class = "ClientError" /\ err.code = 429
    THEN [act |-> "sleep", seconds |-> 0]
    ELSE [act |-> "raise", seconds |-> 0]

\* a retry controller that retries every error within its budget
handle_error_any_error(err, attempt) ==
    IF attempt >= max_retries THEN [act |-> "raise", seconds |-> 0]
    ELSE [act |-> "sleep", seconds |-> 0]

(***************************************************************************)
(* MetadataStore (storage/metadata.py): documents and page_cache tables.   *)
(***************************************************************************)
DocumentInfo(doc_id, file_path, file_hash, file_mtime, collection, chunk_count) ==
    [doc_id |-> doc_id, file_path |-> file_path, file_hash |-> file_hash,
     file_mtime |-> file_mtime, collection |-> collection,
     chunk_count |-> chunk_count]

\* SELECT * FROM documents WHERE file_path = ? AND collection = ?
get_document_by_path(recs, file_path, collection) ==
    LET hit == {d \in Docs : recs[d] # None
                             /\ recs[d][1].file_path = file_path
                             /\ recs[d][1].collection = collection}
    IN  IF hit = {} THEN None ELSE recs[CHOOSE d \in hit : TRUE]

\* INSERT OR REPLACE INTO documents, keyed by doc_id.  The caller
\* (tools/indexing.py line 146) passes no markdown_path, which this version
\* of the store requires: the call then raises, which is the tail outcome
\* "record_exc"; with a store that takes the caller's arguments it is this
\* upsert.
add_document(recs, doc) == [recs EXCEPT ![doc.doc_id] = Some(doc)]

\* UPDATE documents SET file_mtime = ? WHERE doc_id = ?
update_document_mtime(recs, doc_id, file_mtime) ==
    IF recs[doc_id] = None THEN recs
    ELSE [recs EXCEPT ![doc_id] = Some([@[1] EXCEPT !.file_mtime = file_mtime])]

\* DELETE FROM documents WHERE doc_id = ?
remove_document(recs, doc_id) == [recs EXCEPT ![doc_id] = None]

\* SELECT content FROM page_cache WHERE file_hash = ? AND page_index = ?
get_cached_page(pc, file_hash, page_index) == pc[file_hash][page_index]

\* INSERT OR REPLACE INTO page_cache
cache_page(pc, file_hash, page_index, content) ==
    [pc EXCEPT ![file_hash][page_index] = Some(content)]

\* DELETE FROM page_cache WHERE file_hash = ?
clear_page_cache(pc, file_hash) ==
    [pc EXCEPT ![file_hash] = [i \in AllPages |-> None]]

\* cursor.rowcount of that DELETE: the rows of the hash that were there
clear_page_cache_rowcount(pc, file_hash) ==
    Cardinality({i \in AllPages : pc[file_hash][i] # None})

\* DELETE FROM page_cache WHERE file_hash IN (SELECT file_hash FROM documents
\* WHERE collection = ?)
clear_page_cache_for_collection(pc, recs, collection) ==
    LET hashes == {recs[d][1].file_hash :
                      d \in {e \in Docs : recs[e] # None
                                           /\ recs[e][1].collection = collection}}
    IN  [h \in Hashes |-> IF h \in hashes THEN [i \in AllPages |-> None] ELSE pc[h]]

\* SELECT 1 FROM collections WHERE name = ?
collection_exists(colls, name) == name \in colls

\* DELETE FROM collections WHERE name = ?: the collections table afterwards
delete_collection(colls, name) == colls \ {name}

\* ... and the documents table: the rows of the collection go with it (ON
\* DELETE CASCADE of the foreign key, _init_db line 61, with foreign_keys ON)
delete_collection_cascade(recs, name) ==
    [d \in Docs |-> IF recs[d] # None /\ recs[d][1].collection = name
                    THEN None ELSE recs[d]]

(***************************************************************************)
(* VectorStore (storage/vectors.py).                                       *)
(***************************************************************************)
RECURSIVE Points(_, _)
Points(chunks, k) ==
    IF k > Len(chunks) THEN <<>>
    ELSE <<[text |-> chunks[k], chunk_index |-> k - 1]>> \o Points(chunks, k + 1)

\* one new point (fresh uuid) per chunk
add_chunks(vs, chunks, doc_id) == [vs EXCEPT ![doc_id] = @ \o Points(chunks, 1)]

\* delete every point whose payload doc_id matches
delete_document_chunks(vs, doc_id) == [vs EXCEPT ![doc_id] = <<>>]

\* the collection in the payload of the points of a doc_id: add_chunks is
\* called with the collection the doc_id was made from (indexing.py line 142)
collection_of(doc_id) == doc_id[1]

\* delete every point whose payload collection matches
delete_collection_chunks(vs, collection) ==
    [d \in Docs |-> IF collection_of(d) = collection THEN <<>> ELSE vs[d]]

(***************************************************************************)
(* extract_pdf (processing/extractors.py): the page loop and the assembly. *)
(***************************************************************************)
\* One OCR task: where it stands, the loop variable of line 145, its return
\* value; and, kept for the properties, the provider calls made so far, the
\* length of the sleep it is in, and the error the last call ended in.
NoUnit == [st |-> "none", attempt |-> 0, result |-> None,
           calls |-> 0, sleep |-> 0, last |-> None]

NoUnits == [i \in AllPages |-> NoUnit]

\* lines 434-441: which converter a page that missed the cache gets
use_gemini(method, client, h, i) ==
    IF method = "gemini" THEN client
    ELSE IF method = "auto" THEN client /\ should_ocr_page(h, i)
    ELSE FALSE

\* lines 368-394: the way extract_pdf goes for a method and the
\* azure_di_client it was given: the whole document to Azure DI, the whole
\* document to pymupdf, the page loop, or the RuntimeError of line 373
extract_route(method, azure) ==
    IF method = "azure" \/ (method = "auto" /\ azure)
    THEN IF ~azure THEN "raise" ELSE "azure"
    ELSE IF method = "pymupdf" THEN "pymupdf"
    ELSE "pages"

\* tools/indexing.py lines 105-112: extract_document is called without an
\* azure_di_client argument, so extract_pdf gets the default None whatever
\* AppContext.azure_di_client holds
extract_document_azure_di_client == FALSE

\* _azure_extract_pdf: the text rebuilt from the answer of Azure DI for the
\* whole document
azure_extract_pdf(h) == <<Tok("azure", h, 0)>>

\* lines 421-477: one iteration per page, in physical order.  st carries the
\* page cache, md_pages and the OCR tasks created so far.
RECURSIVE page_loop(_, _, _, _, _)
page_loop(h, method, client, i, st) ==
    IF i >= page_count(h) THEN st
    ELSE
        LET cached == get_cached_page(st.cache, h, i) IN
        IF cached # None
        THEN page_loop(h, method, client, i + 1,
                 [st EXCEPT !.md = Append(@, [kind |-> "cached", text |-> cached[1]])])
        ELSE IF use_gemini(method, client, h, i)
        THEN page_loop(h, method, client, i + 1,
                 [st EXCEPT !.md = Append(@, [kind |-> "task", text |-> <<>>]),
                            !.units[i] = [NoUnit EXCEPT !.st = "wait"]])
        ELSE
            LET page_md == to_markdown_page(h, i) IN
            page_loop(h, method, client, i + 1,
                [st EXCEPT !.cache = cache_page(@, h, i, page_md),
                           !.md = Append(@, [kind |-> "pymupdf", text |-> page_md])])

\* line 481: the OCR tasks, in the order they stand in md_pages
RECURSIVE TaskPages(_, _)
TaskPages(md, k) ==
    IF k > Len(md) THEN <<>>
    ELSE (IF md[k].kind = "task" THEN <<k - 1>> ELSE <<>>) \o TaskPages(md, k + 1)

\* line 484: asyncio.gather(*tasks, return_exceptions=True) gives one result
\* per task in the order of the task list, whatever the completion order
gather(us, pages, done_order) == [k \in 1 .. Len(pages) |-> us[pages[k]]]

\* line 484: with return_exceptions=True the gather returns once every task
\* has returned or raised
gather_done(us, pages) ==
    \A k \in 1 .. Len(pages) : us[pages[k]].st \in {"ok", "exc"}

\* the tasks ended in another order than they stand in the task list
Reordered(pages, done_order) ==
    \E j, k \in 1 .. Len(done_order) :
        /\ j < k
        /\ \E a, b \in 1 .. Len(pages) :
              a > b /\ pages[a] = done_order[j] /\ pages[b] = done_order[k]

\* lines 485-496: md_text and failed_pages from md_pages and the results
RECURSIVE assemble(_, _, _, _)
assemble(md, results, k, j) ==
    IF k > Len(md) THEN [md_text |-> <<>>, failed_pages |-> <<>>]
    ELSE IF md[k].kind = "task"
    THEN LET rest == assemble(md, results, k + 1, j + 1) IN
         IF results[j].st = "exc"
         THEN [md_text |-> <<(<<>>)>> \o rest.md_text,
               failed_pages |-> <<k>> \o rest.failed_pages]
         ELSE [md_text |-> <<results[j].result[1]>> \o rest.md_text,
               failed_pages |-> rest.failed_pages]
    ELSE LET rest == assemble(md, results, k + 1, j) IN
         [md_text |-> <<md[k].text>> \o rest.md_text,
          failed_pages |-> rest.failed_pages]

\* a file semaphore that never runs out of permits
semaphore_always_free(b) == TRUE

\* the tail of the indexer without the check for an empty chunk list
index_tail_no_empty_check(st, doc_id, abs_path, collection, file_hash, current_mtime, content, out) ==
    LET chunks == chunk_text(content)
        vs2 == add_chunks(delete_document_chunks(st.vstore, doc_id), chunks, doc_id)
    IN  [vstore |-> vs2,
         records |-> add_document(st.records,
                         DocumentInfo(doc_id, abs_path, file_hash, current_mtime,
                                      collection, Len(chunks))),
         cache |-> clear_page_cache(st.cache, file_hash),
         res |-> IF chunks = <<>> THEN "empty" ELSE "indexed",
         chunked |-> TRUE, embedded |-> chunks # <<>>, chunk_count |-> Len(chunks)]

\* the tail of the indexer clearing the page cache of the file when it fails
index_tail_clear_on_failure(st, doc_id, abs_path, collection, file_hash, current_mtime, content, out) ==
    [vstore |-> st.vstore, records |-> st.records,
     cache |-> clear_page_cache(st.cache, file_hash),
     res |-> "index_failed", chunked |-> TRUE, embedded |-> FALSE, chunk_count |-> 0]

\* the tail of the indexer writing the record before it embeds, and failing
index_tail_record_first(st, doc_id, abs_path, collection, file_hash, current_mtime, content, out) ==
    [vstore |-> st.vstore,
     records |-> add_document(st.records,
                     DocumentInfo(doc_id, abs_path, file_hash, current_mtime,
                                  collection, Len(chunk_text(content)))),
     cache |-> st.cache,
     res |-> "index_failed", chunked |-> TRUE, embedded |-> FALSE, chunk_count |-> 0]

(***************************************************************************)
(* _index_single_file (tools/indexing.py).                                 *)
(***************************************************************************)
\* Where the part of _index_single_file after the extraction stops:
\* "ok" runs to the end; "<call>_exc" is that call raising; "kill_<call>" is
\* the process being killed right after that call returned.
TailOutcomes ==
    {"ok", "chunk_exc", "delete_exc", "embed_exc", "add_exc", "record_exc",
     "clear_exc", "kill_delete", "kill_add", "kill_record"}

Kills == {"kill_delete", "kill_add", "kill_record"}

\* the outcomes in which add_document is called and does not raise
Upserts == {"ok", "clear_exc", "kill_record"}

\* lines 121-167.  st holds the three stores; the result adds res (the
\* FileIndexResult, "raised" for an exception that leaves the function) and
\* the calls made.
index_tail(st, doc_id, abs_path, collection, file_hash, current_mtime, content, out) ==
    LET base == [vstore |-> st.vstore, records |-> st.records, cache |-> st.cache,
                 res |-> "index_failed", chunked |-> TRUE, embedded |-> FALSE,
                 chunk_count |-> 0]
        chunks == chunk_text(content)
        vs1 == delete_document_chunks(st.vstore, doc_id)
        vs2 == add_chunks(vs1, chunks, doc_id)
        recs2 == add_document(st.records,
                     DocumentInfo(doc_id, abs_path, file_hash, current_mtime,
                                  collection, Len(chunks)))
        n == Len(chunks)
    IN  IF out = "chunk_exc" THEN base
        ELSE IF chunks = <<>> THEN [base EXCEPT !.res = "empty"]
        ELSE IF out = "delete_exc" THEN [base EXCEPT !.chunk_count = n]
        ELSE IF out = "kill_delete"
            THEN [base EXCEPT !.vstore = vs1, !.chunk_count = n, !.res = "killed"]
        ELSE IF out = "embed_exc"
            THEN [base EXCEPT !.vstore = vs1, !.chunk_count = n, !.embedded = TRUE]
        ELSE IF out = "add_exc"
            THEN [base EXCEPT !.vstore = vs1, !.chunk_count = n, !.embedded = TRUE]
        ELSE IF out \in {"record_exc", "kill_add"}
            THEN [base EXCEPT !.vstore = vs2, !.chunk_count = n, !.embedded = TRUE,
                              !.res = IF out = "kill_add" THEN "killed" ELSE "index_failed"]
        ELSE IF out \in {"clear_exc", "kill_record"}
            THEN [base EXCEPT !.vstore = vs2, !.records = recs2, !.chunk_count = n,
                              !.embedded = TRUE,
                              !.res = IF out = "kill_record" THEN "killed" ELSE "raised"]
        ELSE [base EXCEPT !.vstore = vs2, !.records = recs2, !.chunk_count = n,
                          !.embedded = TRUE,
                          !.cache = clear_page_cache(st.cache, file_hash),
                          !.res = "indexed"]

IdleTask ==
    [pc |-> "idle", path |-> "", coll |-> "", force |-> FALSE, method |-> "",
     hash |-> "", mtime |-> 0, md |-> <<>>, res |-> "", content |-> <<>>,
     failed |-> <<>>, chunk_count |-> 0,
     \* what the call did and what it found, kept for the properties
     extracted |-> FALSE, chunked |-> FALSE, embedded |-> FALSE,
     purged |-> FALSE, orphans |-> FALSE, touched |-> FALSE,
     reordered |-> FALSE, dirty |-> FALSE,
     \* the index_files call the coroutine belongs to (0: a call with one
     \* path), its place in the call's list, and whether the call's gather
     \* still waits for it
     batch |-> 0, pos |-> 0, awaited |-> FALSE,
     \* the way the extraction went
     route |-> ""]

Stores == [vstore |-> vstore, records |-> records, cache |-> cache]

\* The coroutines after coroutine actor (0: a call that is no coroutine of
\* Tasks) changed the page cache to newcache: a coroutine waiting for its OCR
\* tasks whose hash had entries written or deleted by another is marked.
Disturbed(tasks, actor, newcache) ==
    [u \in Tasks |->
        IF u # actor /\ tasks[u].pc = "ocr"
           /\ newcache[tasks[u].hash] # cache[tasks[u].hash]
        THEN [tasks[u] EXCEPT !.dirty = TRUE]
        ELSE tasks[u]]

\* The state after the tail ran for coroutine t (tk is its record so far),
\* for each way in outs the tail can go
AfterTail(t, tk, st, colls, content, outs) ==
    \E out \in outs :
    LET doc_id == make_doc_id(tk.path, tk.coll)
        \* documents.collection REFERENCES collections(name) with foreign_keys
        \* ON (metadata.py lines 61 and 90): the upsert raises when the
        \* collection has been deleted since the call created it
        fk == IF tk.coll \notin colls /\ out \in Upserts THEN "record_exc" ELSE out
        r == index_tail(st, doc_id, tk.path, tk.coll, tk.hash, tk.mtime, content, fk)
    IN  /\ vstore' = r.vstore
        /\ records' = r.records
        /\ cache' = r.cache
        /\ IF r.res = "killed"
           THEN /\ task' = [u \in Tasks |-> IdleTask]
                /\ units' = [u \in Tasks |-> NoUnits]
                /\ completion' = [u \in Tasks |-> <<>>]
           ELSE /\ task' = Disturbed([task EXCEPT ![t] =
                       [tk EXCEPT !.pc = "done", !.res = r.res, !.content = content,
                                  !.chunk_count = r.chunk_count,
                                  !.chunked = r.chunked, !.embedded = r.embedded,
                                  !.orphans = (st.vstore[doc_id] # <<>>
                                               /\ st.records[doc_id] = None)]],
                                  t, r.cache)
                /\ units' = [units EXCEPT ![t] = NoUnits]
                /\ completion' = [completion EXCEPT ![t] = <<>>]

\* lines 60-119 up to the first suspension: the skip checks, then extract_pdf
\* up to the gather (lines 352-484); with no OCR task the call runs on to
\* its end.
RunIndex(t, call, colls, outs) ==
    /\ LET file_path == call.path
           collection == call.coll
           force == call.force
           method == call.method
           doc_id == make_doc_id(file_path, collection)
           current_mtime == fs[file_path].mtime
           existing == IF force THEN None
                       ELSE get_document_by_path(records, file_path, collection)
           file_hash == fs[file_path].hash
           tk0 == [call EXCEPT !.mtime = current_mtime]
           early(res) ==
               /\ task' = [task EXCEPT ![t] = [call EXCEPT !.pc = "done", !.res = res]]
               /\ UNCHANGED <<vstore, records, cache, units, completion>>
           skip(recs) ==
               /\ task' = [task EXCEPT ![t] = [tk0 EXCEPT !.pc = "done", !.res = "skipped",
                                                          !.touched = (recs # records)]]
               /\ records' = recs
               /\ UNCHANGED <<vstore, cache, units, completion>>
       IN  IF ~file_exists(file_path) THEN early("not_found")
           ELSE IF ~is_supported_file(file_path) THEN early("unsupported")
           ELSE IF existing # None /\ existing[1].file_mtime = current_mtime
           THEN skip(records)
           ELSE IF existing # None /\ file_hash = existing[1].file_hash
           THEN skip(update_document_mtime(records, existing[1].doc_id, current_mtime))
           ELSE
             LET cache1 == IF force THEN clear_page_cache(cache, file_hash) ELSE cache
                 route == extract_route(method, extract_document_azure_di_client)
                 tk1 == [tk0 EXCEPT !.hash = file_hash, !.extracted = TRUE,
                                    !.purged = (cache1 # cache), !.route = route]
                 st1 == [Stores EXCEPT !.cache = cache1]
                 lp == page_loop(file_hash, method, gemini_client, 0,
                           [cache |-> cache1, md |-> <<>>, units |-> NoUnits])
                 tk2 == [tk1 EXCEPT !.md = lp.md]
                 st2 == [Stores EXCEPT !.cache = lp.cache]
             IN  IF route = "raise"
                 THEN \* RuntimeError, caught at line 113
                      /\ task' = Disturbed([task EXCEPT ![t] =
                              [tk1 EXCEPT !.pc = "done", !.res = "extract_failed"]],
                              t, cache1)
                      /\ cache' = cache1
                      /\ UNCHANGED <<vstore, records, units, completion>>
                 ELSE IF route = "azure"
                 THEN AfterTail(t, tk1, st1, colls, azure_extract_pdf(file_hash), outs)
                 ELSE IF route = "pymupdf"
                 THEN AfterTail(t, tk1, st1, colls, to_markdown_doc(file_hash), outs)
                 ELSE IF TaskPages(lp.md, 1) = <<>>
                 THEN AfterTail(t, tk2, st2, colls,
                          Join(assemble(lp.md, <<>>, 1, 1).md_text), outs)
                 ELSE /\ task' = Disturbed([task EXCEPT ![t] = [tk2 EXCEPT !.pc = "ocr"]],
                                         t, lp.cache)
                      /\ units' = [units EXCEPT ![t] = lp.units]
                      /\ cache' = lp.cache
                      /\ UNCHANGED <<vstore, records, completion>>
    /\ UNCHANGED <<reply, fs, gemini_client, azure_di_client, di>>

\* index_files with one path: the semaphore of the call is free
StartIndex(t, file_path, collection, force, method, outs) ==
    /\ task[t].pc = "idle"
    /\ RunIndex(t, [IdleTask EXCEPT !.path = file_path, !.coll = collection,
                                    !.force = force, !.method = method],
                collections \cup {collection}, outs)
    /\ collections' = collections \cup {collection}

(***************************************************************************)
(* The OCR task of one page: _convert_and_cache_gemini_page and            *)
(* _gemini_ocr_pdf_page_with_retry (extractors.py lines 138-187).          *)
(***************************************************************************)
InFlight == {tp \in Tasks \X AllPages : units[tp[1]][tp[2]].st = "call"}

\* The Retry-After header of a 429 answer: absent, a number of seconds, an
\* HTTP date (v: seconds from now to that date, negative when it is past),
\* or text that is neither.
NoHint == [kind |-> "missing", v |-> 0]

RetryHints ==
    {[kind |-> "seconds", v |-> n] : n \in 0 .. MaxRetryAfter}
        \cup {[kind |-> "http_date", v |-> d] : d \in -1 .. MaxRetryAfter}
        \cup {NoHint, [kind |-> "malformed", v |-> 0]}

\* what a provider call can raise: google.genai errors.ClientError (4xx),
\* errors.ServerError (5xx), RuntimeError (line 109, no text in the answer)
RateLimited(hint) == [class |-> "ClientError", code |-> 429, hint |-> hint]

OtherErrors ==
    {[class |-> "ClientError", code |-> 400, hint |-> NoHint],
     [class |-> "ServerError", code |-> 500, hint |-> NoHint],
     [class |-> "RuntimeError", code |-> 0, hint |-> NoHint]}

\* lines 114-135: the seconds to sleep, or the exception raised instead
\* ("error": the 429 itself; "ValueError": parsedate_to_datetime's)
get_retry_after_seconds(hint) ==
    IF hint.kind = "missing" THEN [raises |-> "error", seconds |-> 0]
    ELSE IF hint.kind = "seconds" THEN [raises |-> "", seconds |-> hint.v]
    ELSE IF hint.kind = "http_date"
    THEN [raises |-> "", seconds |-> IF hint.v > 0 THEN hint.v ELSE 0]
    ELSE [raises |-> "ValueError", seconds |-> 0]

\* lines 153-166: what becomes of error err of the call of loop round attempt
handle_error(err, attempt) ==
    IF err.class # "ClientError" THEN [act |-> "raise", seconds |-> 0]
    ELSE IF err.code # 429 \/ attempt >= max_retries
    THEN [act |-> "raise", seconds |-> 0]
    ELSE LET r == get_retry_after_seconds(err.hint) IN
         IF r.raises # "" THEN [act |-> "raise", seconds |-> 0]
         ELSE [act |-> "sleep", seconds |-> r.seconds]

\* The OCR tasks that hold a permit of the semaphore the tasks of coroutine
\* t acquire: app.gemini_semaphore, made once (server.py line 69) and handed
\* to every extract_pdf (indexing.py line 109, extractors.py line 413).
semaphore_holders(t) == InFlight

\* line 147: async with semaphore
Acquire(t, i) ==
    /\ units[t][i].st = "wait"
    /\ Cardinality(semaphore_holders(t)) < GeminiPermits
    /\ units' = [units EXCEPT ![t][i].st = "call", ![t][i].calls = @ + 1]
    /\ UNCHANGED <<reply, fs, gemini_client, azure_di_client, di, collections, records, vstore, cache, task, completion>>

\* lines 148-152 return, then line 186: the page is converted from the file
\* as it is on disk now and cached under the hash taken at line 352
OcrOk(t, i) ==
    /\ units[t][i].st = "call"
    /\ i \in PageIdx(fs[task[t].path].hash)
    /\ LET result == gemini_text(fs[task[t].path].hash, i) IN
        /\ units' = [units EXCEPT ![t][i].st = "ok", ![t][i].result = Some(result)]
        /\ cache' = cache_page(cache, task[t].hash, i, result)
        /\ task' = Disturbed(task, t, cache_page(cache, task[t].hash, i, result))
    /\ completion' = [completion EXCEPT ![t] = Append(@, i)]
    /\ UNCHANGED <<reply, fs, gemini_client, azure_di_client, di, collections, records, vstore>>

\* lines 153-166: a 429 answer
CallFails(t, i, err) ==
    /\ units[t][i].st = "call"
    /\ LET r == handle_error(err, units[t][i].attempt)
       IN  IF r.act = "raise"
           THEN /\ units' = [units EXCEPT ![t][i].st = "exc",
                                          ![t][i].last = Some(err)]
                /\ completion' = [completion EXCEPT ![t] = Append(@, i)]
           ELSE /\ units' = [units EXCEPT ![t][i].st = "sleep",
                                          ![t][i].sleep = r.seconds,
                                          ![t][i].last = Some(err)]
                /\ UNCHANGED completion
    /\ UNCHANGED <<reply, fs, gemini_client, azure_di_client, di, collections, records, vstore, cache, task>>

OcrRateLimited(t, i, hint) == CallFails(t, i, RateLimited(hint))

\* lines 153-155: any other error of the call
OcrError(t, i, err) == CallFails(t, i, err)

\* line 166 returns: the next iteration of the loop at line 145
Wake(t, i) ==
    /\ units[t][i].st = "sleep"
    /\ units' = [units EXCEPT ![t][i].st = "wait", ![t][i].attempt = @ + 1,
                              ![t][i].sleep = 0, ![t][i].last = None]
    /\ UNCHANGED <<reply, fs, gemini_client, azure_di_client, di, collections, records, vstore, cache, task, completion>>

\* extract_pdf lines 484-530 once every OCR task has ended, then
\* _index_single_file lines 113-167
FinishIndex(t, outs) ==
    /\ task[t].pc = "ocr"
    /\ LET pages == TaskPages(task[t].md, 1)
           results == gather(units[t], pages, completion[t])
           a == assemble(task[t].md, results, 1, 1)
           tk == [task[t] EXCEPT !.reordered = Reordered(pages, completion[t])]
       IN  /\ gather_done(units[t], pages)
           /\ IF a.failed_pages # <<>>
              THEN /\ task' = [task EXCEPT ![t] =
                            [tk EXCEPT !.pc = "done", !.res = "extract_failed",
                                       !.failed = a.failed_pages]]
                   /\ units' = [units EXCEPT ![t] = NoUnits]
                   /\ completion' = [completion EXCEPT ![t] = <<>>]
                   /\ UNCHANGED <<records, vstore, cache>>
              ELSE AfterTail(t, tk, Stores, collections, Join(a.md_text), outs)
    /\ UNCHANGED <<reply, fs, gemini_client, azure_di_client, di, collections>>

\* the caller has its FileIndexResult; the coroutine is gone
Reap(t) ==
    /\ task[t].pc = "done"
    /\ ~task[t].awaited
    /\ task' = [task EXCEPT ![t] = IdleTask]
    /\ UNCHANGED <<reply, fs, gemini_client, azure_di_client, di, collections, records, vstore, cache, units, completion>>

(***************************************************************************)
(* remove_documents (tools/indexing.py lines 264-286), one path.           *)
(***************************************************************************)
RemoveOutcomes == {"ok", "delete_exc", "clear_exc", "remove_exc"}

remove_one(st, file_path, collection, out) ==
    LET doc == get_document_by_path(st.records, file_path, collection)
        vs1 == delete_document_chunks(st.vstore, doc[1].doc_id)
        pc1 == clear_page_cache(st.cache, doc[1].file_hash)
    IN  IF doc = None \/ out = "delete_exc" THEN st
        ELSE IF out = "clear_exc" THEN [st EXCEPT !.vstore = vs1]
        ELSE IF out = "remove_exc" THEN [st EXCEPT !.vstore = vs1, !.cache = pc1]
        ELSE [vstore |-> vs1, cache |-> pc1,
              records |-> remove_document(st.records, doc[1].doc_id)]

Remove(file_path, collection, out) ==
    /\ get_document_by_path(records, file_path, collection) # None
    /\ LET r == remove_one(Stores, file_path, collection, out) IN
        /\ vstore' = r.vstore
        /\ cache' = r.cache
        /\ records' = r.records
        /\ task' = Disturbed(task, 0, r.cache)
    /\ UNCHANGED <<reply, fs, gemini_client, azure_di_client, di, collections, units, completion>>

(***************************************************************************)
(* index_files and remove_documents with several paths                     *)
(* (tools/indexing.py lines 170-201 and 264-286).                          *)
(***************************************************************************)
Batches == {1, 2}

\* no AnalyzeResult has been rebuilt
NoDi == [content |-> <<>>, tables |-> <<>>, out |-> <<>>]

\* no batch call has returned yet
NoReply ==
    [op |-> "", coll |-> "", inputs |-> <<>>, results |-> <<>>, raised |-> FALSE,
     error |-> "", n |-> 0]

FileIndexResult(file_path, res) == [file_path |-> file_path, res |-> res]

\* the coroutines that index_files call b created and that have not ended
Member(b) == {t \in Tasks : task[t].batch = b /\ task[t].pc # "idle"}

\* those whose result the gather of the call still waits for
Awaited(b) == {t \in Member(b) : task[t].awaited}

\* the coroutines of call b inside `async with semaphore`: the semaphore is
\* made by the call (line 184), so only the call's own coroutines take its
\* permits
Inside(b) == {t \in Member(b) : task[t].pc = "ocr"}

\* asyncio.Semaphore(MAX_CONCURRENT_FILES) of call b has a permit left
semaphore_free(b) == Cardinality(Inside(b)) < MaxConcurrentFiles

\* the coroutines with no call, in increasing order
FreeTasks == {t \in Tasks : task[t].pc = "idle"}

Rank(t) == Cardinality({u \in FreeTasks : u < t}) + 1

\* lines 170-195 up to the gather: one coroutine per path, in the order of
\* file_paths, all with the call's new semaphore
IndexFiles(b, file_paths, collection, force, method) ==
    /\ Member(b) = {}
    /\ \A a \in Batches : a < b => Member(a) # {}
    /\ Len(file_paths) <= Cardinality(FreeTasks)
    /\ task' = [t \in Tasks |->
            IF t \in FreeTasks /\ Rank(t) <= Len(file_paths)
            THEN [IdleTask EXCEPT !.pc = "pending", !.path = file_paths[Rank(t)],
                                  !.coll = collection, !.force = force,
                                  !.method = method, !.batch = b,
                                  !.pos = Rank(t), !.awaited = TRUE]
            ELSE task[t]]
    /\ collections' = collections \cup {collection}
    /\ UNCHANGED <<fs, gemini_client, azure_di_client, di, records, vstore, cache, units,
                   completion, reply>>

\* line 68: the coroutine takes a permit of the semaphore of its call, the
\* waiting coroutines in the order in which they came, and runs on to its
\* first suspension
PassSemaphore(t, outs) ==
    /\ task[t].pc = "pending"
    /\ semaphore_free(task[t].batch)
    /\ \A u \in Member(task[t].batch) :
            task[u].pc = "pending" => task[u].pos >= task[t].pos
    /\ RunIndex(t, task[t], collections, outs)
    /\ UNCHANGED collections

\* the paths and the results of the awaited coroutines of call b, in the
\* order of the list: asyncio.gather returns the results in that order
InputsOf(b) ==
    [k \in 1 .. Cardinality(Awaited(b)) |->
        task[CHOOSE t \in Awaited(b) : task[t].pos = k].path]

ResultsOf(b) ==
    [k \in 1 .. Cardinality(Awaited(b)) |->
        LET t == CHOOSE u \in Awaited(b) : task[u].pos = k
        IN  FileIndexResult(task[t].path, task[t].res)]

\* the collection argument of call b
CollOf(b) == task[CHOOSE t \in Awaited(b) : TRUE].coll

\* lines 186-201: every coroutine has returned, the call returns the list
IndexFilesReturn(b) ==
    /\ Awaited(b) # {}
    /\ \A t \in Awaited(b) : task[t].pc = "done" /\ task[t].res # "raised"
    /\ reply' = [op |-> "index_files", inputs |-> InputsOf(b), coll |-> CollOf(b),
                 results |-> ResultsOf(b), raised |-> FALSE, error |-> "",
                 n |-> 1 - reply.n]
    /\ task' = [t \in Tasks |-> IF t \in Awaited(b) THEN IdleTask ELSE task[t]]
    /\ UNCHANGED <<fs, gemini_client, azure_di_client, di, collections, records, vstore, cache, units, completion>>

\* lines 186-195: the gather has no return_exceptions, so the exception of
\* the first coroutine that raises leaves index_files at once; the other
\* coroutines run on with nobody waiting for their result
IndexFilesRaise(b) ==
    /\ \E t \in Awaited(b) : task[t].pc = "done" /\ task[t].res = "raised"
    /\ reply' = [op |-> "index_files", inputs |-> InputsOf(b), coll |-> CollOf(b),
                 results |-> <<>>, raised |-> TRUE, error |-> "Exception",
                 n |-> 1 - reply.n]
    /\ task' = [t \in Tasks |->
            IF t \notin Awaited(b) THEN task[t]
            ELSE IF task[t].pc = "done" THEN IdleTask
            ELSE [task[t] EXCEPT !.awaited = FALSE]]
    /\ UNCHANGED <<fs, gemini_client, azure_di_client, di, collections, records, vstore, cache, units, completion>>

\* lines 270-286: the loop over file_paths from place k on; outs[k] is how
\* the store calls for path k go.  No call of the loop is inside a try: an
\* exception leaves remove_documents.
RECURSIVE remove_documents(_, _, _, _, _, _)
remove_documents(st, file_paths, collection, outs, k, results) ==
    IF k > Len(file_paths) THEN [st |-> st, results |-> results, raised |-> FALSE]
    ELSE IF get_document_by_path(st.records, file_paths[k], collection) = None
    THEN remove_documents(st, file_paths, collection, outs, k + 1,
             Append(results, FileIndexResult(file_paths[k], "not_found")))
    ELSE IF outs[k] = "ok"
    THEN remove_documents(remove_one(st, file_paths[k], collection, "ok"),
             file_paths, collection, outs, k + 1,
             Append(results, FileIndexResult(file_paths[k], "removed")))
    ELSE [st |-> remove_one(st, file_paths[k], collection, outs[k]),
          results |-> <<>>, raised |-> TRUE]

RemoveDocuments(file_paths, collection, outs) ==
    /\ LET r == remove_documents(Stores, file_paths, collection, outs, 1, <<>>) IN
        /\ vstore' = r.st.vstore
        /\ cache' = r.st.cache
        /\ records' = r.st.records
        /\ task' = Disturbed(task, 0, r.st.cache)
        /\ reply' = [op |-> "remove_documents", inputs |-> file_paths, coll |-> collection,
                     results |-> r.results, raised |-> r.raised,
                     error |-> IF r.raised THEN "Exception" ELSE "",
                     n |-> 1 - reply.n]
    /\ UNCHANGED <<fs, gemini_client, azure_di_client, di, collections, units, completion>>

(***************************************************************************)
(* delete_collection (tools/collections.py lines 50-58).                   *)
(***************************************************************************)
\* "ok" runs to the end; "<call>_exc" is that store call raising
DeleteOutcomes == {"ok", "chunks_exc", "cache_exc", "delete_exc"}

DeleteCollection(name, out) ==
    LET vs1 == delete_collection_chunks(vstore, name)
        pc1 == clear_page_cache_for_collection(cache, records, name)
        answer(raised, error) ==
            [op |-> "delete_collection", coll |-> name, inputs |-> <<>>,
             results |-> <<>>, raised |-> raised, error |-> error, n |-> 1 - reply.n]
    IN  /\ IF ~collection_exists(collections, name)
           THEN /\ reply' = answer(TRUE, "CollectionNotFoundError")
                /\ UNCHANGED <<vstore, cache, records, collections, task>>
           ELSE /\ reply' = answer(out # "ok", IF out = "ok" THEN "" ELSE "Exception")
                /\ vstore' = IF out = "chunks_exc" THEN vstore ELSE vs1
                /\ cache' = IF out \in {"chunks_exc", "cache_exc"} THEN cache ELSE pc1
                /\ records' = IF out = "ok" THEN delete_collection_cascade(records, name)
                              ELSE records
                /\ collections' = IF out = "ok" THEN delete_collection(collections, name)
                                  ELSE collections
                /\ task' = Disturbed(task, 0, cache')
        /\ UNCHANGED <<fs, gemini_client, azure_di_client, di, units, completion>>

(***************************************************************************)
(* The environment: the files change, the process is killed.               *)
(***************************************************************************)
Touch(p) ==
    /\ \E m \in (1 .. MaxMtime) \ {fs[p].mtime} :
            fs' = [fs EXCEPT ![p].mtime = m]
    /\ UNCHANGED <<reply, gemini_client, azure_di_client, di, collections, records, vstore, cache, task, units, completion>>

Edit(p) ==
    /\ \E h \in Hashes \ {fs[p].hash}, m \in 1 .. MaxMtime :
            fs' = [fs EXCEPT ![p] = [hash |-> h, mtime |-> m]]
    /\ UNCHANGED <<reply, gemini_client, azure_di_client, di, collections, records, vstore, cache, task, units, completion>>

Crash ==
    /\ \E t \in Tasks : task[t].pc # "idle"
    /\ task' = [t \in Tasks |-> IdleTask]
    /\ units' = [t \in Tasks |-> NoUnits]
    /\ completion' = [t \in Tasks |-> <<>>]
    /\ UNCHANGED <<reply, fs, gemini_client, azure_di_client, di, collections, records, vstore, cache>>

(***************************************************************************)
(* The table reconstructor (processing/extractors.py lines 190-315).  A    *)
(* string is a sequence of tokens; the tokens "\n" and " " are the newline *)
(* and the blank, "|" is the pipe with the blanks around it.               *)
(***************************************************************************)
\* a separator placed after the first header row
separator_after_first(table) ==
    LET rows == {table.cells[k].row_index :
                    k \in {j \in 1 .. Len(table.cells) :
                              table.cells[j].kind \in {"columnHeader", "rowHeader", "stubHead"}}}
    IN  IF rows = {} THEN 0 ELSE CHOOSE r \in rows : \A q \in rows : r <= q

\* a span that marks only the cell's own position
span_positions_own(cell) == {<<cell.row_index, cell.column_index>>}

\* replacements left in the order of the tables
sorted_replacements_unsorted(reps) == reps

HeaderKinds == {"columnHeader", "rowHeader", "stubHead"}

\* kind = cell.kind or "content"; an absent kind is ""
kind_of(cell) == IF cell.kind = "" THEN "content" ELSE cell.kind

\* rs = cell.row_span or 1, cs = cell.column_span or 1; an absent span is 0
span_of(v) == IF v = 0 THEN 1 ELSE v

RECURSIVE lstrip(_)
lstrip(s) == IF s # <<>> /\ Head(s) \in {" ", "\n"} THEN lstrip(Tail(s)) ELSE s

reversed(s) == [k \in 1 .. Len(s) |-> s[Len(s) + 1 - k]]

\* str.strip()
strip(s) == reversed(lstrip(reversed(lstrip(s))))

\* cell.content.replace("\n", " ").strip()
cell_content(cell) ==
    strip([k \in 1 .. Len(cell.content) |->
              IF cell.content[k] = "\n" THEN " " ELSE cell.content[k]])

\* "\n".join(lines)
RECURSIVE join_lines(_)
join_lines(lines) ==
    IF lines = <<>> THEN <<>>
    ELSE IF Len(lines) = 1 THEN lines[1]
    ELSE lines[1] \o <<"\n">> \o join_lines(Tail(lines))

\* lines 190-195
needs_html_table(table) ==
    \E k \in 1 .. Len(table.cells) :
        span_of(table.cells[k].row_span) > 1 \/ span_of(table.cells[k].column_span) > 1

\* lines 203-208 and 266-272: the rows that hold a cell of a header kind
header_rows(table) ==
    {table.cells[k].row_index :
        k \in {j \in 1 .. Len(table.cells) : kind_of(table.cells[j]) \in HeaderKinds}}

\* lines 223-227: the positions that a cell's span takes
span_positions(cell) ==
    {<<cell.row_index + dr, cell.column_index + dc>> :
        dr \in 0 .. (span_of(cell.row_span) - 1),
        dc \in 0 .. (span_of(cell.column_span) - 1)}

\* sorted(cells, key=column_index): stable, by insertion
RECURSIVE insert_by_column(_, _)
insert_by_column(sorted, cell) ==
    IF sorted = <<>> THEN <<cell>>
    ELSE IF sorted[Len(sorted)].column_index <= cell.column_index
    THEN Append(sorted, cell)
    ELSE Append(insert_by_column(SubSeq(sorted, 1, Len(sorted) - 1), cell),
                sorted[Len(sorted)])

RECURSIVE sort_by_column(_, _)
sort_by_column(cells, k) ==
    IF k = 0 THEN <<>>
    ELSE insert_by_column(sort_by_column(cells, k - 1), cells[k])

\* lines 211-215: by_row.get(r_idx, []), sorted by column
cells_in_row(table, r_idx) ==
    LET InRow(cell) == cell.row_index = r_idx
        row == SelectSeq(table.cells, InRow)
    IN  sort_by_column(row, Len(row))

\* lines 228-235: the element of one cell
html_cell(cell, tag) ==
    <<"<" \o tag>>
    \o (IF span_of(cell.row_span) > 1
        THEN <<"rowspan=", ToString(span_of(cell.row_span))>> ELSE <<>>)
    \o (IF span_of(cell.column_span) > 1
        THEN <<"colspan=", ToString(span_of(cell.column_span))>> ELSE <<>>)
    \o <<">">> \o cell_content(cell) \o <<"</" \o tag \o ">">>

\* lines 217-235: the cells of one row from the k-th on; st carries the
\* occupied positions and the row's parts
RECURSIVE html_row(_, _, _, _, _)
html_row(cells, k, r_idx, header, st) ==
    IF k > Len(cells) THEN st
    ELSE
        LET cell == cells[k]
            pos == <<cell.row_index, cell.column_index>>
            tag == IF r_idx \in header THEN "th" ELSE "td"
        IN  IF pos \in st.occupied
            THEN html_row(cells, k + 1, r_idx, header, st)
            ELSE html_row(cells, k + 1, r_idx, header,
                     [occupied |-> st.occupied \cup span_positions(cell),
                      row_parts |-> st.row_parts \o html_cell(cell, tag)])

\* lines 214-236: the rows from r_idx on
RECURSIVE html_rows(_, _, _)
html_rows(table, r_idx, occupied) ==
    IF r_idx >= table.row_count THEN <<>>
    ELSE
        LET st == html_row(cells_in_row(table, r_idx), 1, r_idx, header_rows(table),
                           [occupied |-> occupied, row_parts |-> <<>>])
        IN  <<<<"<tr>">> \o st.row_parts \o <<"</tr>">>>>
            \o html_rows(table, r_idx + 1, st.occupied)

\* lines 239-241 and 276-278
caption_lines(table) ==
    IF table.caption = None THEN <<>>
    ELSE << <<"**">> \o strip(table.caption[1]) \o <<"**">>, <<>> >>

\* lines 245-248 and 283-286
RECURSIVE footnote_lines(_)
footnote_lines(footnotes) ==
    IF footnotes = <<>> THEN <<>>
    ELSE << <<>>, <<"_">> \o strip(Head(footnotes)) \o <<"_">> >>
         \o footnote_lines(Tail(footnotes))

\* lines 198-249
build_html_table(table) ==
    join_lines(caption_lines(table)
               \o << <<"<table>">> >>
               \o html_rows(table, 0, {})
               \o << <<"</table>">> >>
               \o footnote_lines(table.footnotes))

\* lines 268-270: the cells written into the grid one after the other, a
\* later cell over an earlier one at the same place
RECURSIVE fill_grid(_, _, _)
fill_grid(grid, cells, k) ==
    IF k > Len(cells) THEN grid
    ELSE fill_grid([grid EXCEPT ![cells[k].row_index][cells[k].column_index]
                                   = cell_content(cells[k])],
                   cells, k + 1)

\* line 274
separator_after(table) ==
    IF header_rows(table) = {} THEN 0
    ELSE CHOOSE r \in header_rows(table) : \A q \in header_rows(table) : q <= r

\* "| " + " | ".join(row) + " |"
RECURSIVE pipe_join(_, _)
pipe_join(row, c) ==
    IF c >= Len(row) THEN <<"|">>
    ELSE <<"|">> \o row[c + 1] \o pipe_join(row, c + 1)

\* lines 279-282: the lines of the rows from r_idx on
RECURSIVE markdown_rows(_, _, _, _)
markdown_rows(grid, table, r_idx, sep) ==
    IF r_idx >= table.row_count THEN <<>>
    ELSE <<pipe_join([c \in 1 .. table.column_count |-> grid[r_idx][c - 1]], 0)>>
         \o (IF r_idx = sep
             THEN <<pipe_join([c \in 1 .. table.column_count |-> <<"---">>], 0)>>
             ELSE <<>>)
         \o markdown_rows(grid, table, r_idx + 1, sep)

\* lines 252-289
build_markdown_table(table) ==
    IF needs_html_table(table) THEN build_html_table(table)
    ELSE
        LET empty == [r \in 0 .. (table.row_count - 1) |->
                         [c \in 0 .. (table.column_count - 1) |-> <<>>]]
            grid == fill_grid(empty, table.cells, 1)
        IN  join_lines(caption_lines(table)
                       \o markdown_rows(grid, table, 0, separator_after(table))
                       \o footnote_lines(table.footnotes))

\* lines 303-310: one replacement per table that has a span, of its first
\* span
RECURSIVE replacements(_, _)
replacements(tables, k) ==
    IF k > Len(tables) THEN <<>>
    ELSE (IF tables[k].spans = <<>> THEN <<>>
          ELSE <<[start |-> tables[k].spans[1].offset,
                  end |-> tables[k].spans[1].offset + tables[k].spans[1].length,
                  md |-> build_markdown_table(tables[k])]>>)
         \o replacements(tables, k + 1)

\* sorted(..., key=start, reverse=True): descending, equal keys in their
\* first order
RECURSIVE insert_descending(_, _)
insert_descending(sorted, rep) ==
    IF sorted = <<>> THEN <<rep>>
    ELSE IF sorted[Len(sorted)].start >= rep.start
    THEN Append(sorted, rep)
    ELSE Append(insert_descending(SubSeq(sorted, 1, Len(sorted) - 1), rep),
                sorted[Len(sorted)])

RECURSIVE sort_descending(_, _)
sort_descending(reps, k) ==
    IF k = 0 THEN <<>>
    ELSE insert_descending(sort_descending(reps, k - 1), reps[k])

\* line 312: the replacements in the order in which they are applied
sorted_replacements(reps) == sort_descending(reps, Len(reps))

\* content[:start] + md + content[end:], with the clamping of slices
splice(content, start, end, md) ==
    LET n == Len(content)
        a == IF start > n THEN n ELSE start
        b == IF end > n THEN n ELSE end
    IN  SubSeq(content, 1, a) \o md \o SubSeq(content, b + 1, n)

\* lines 312-313
RECURSIVE apply_replacements(_, _, _)
apply_replacements(content, reps, k) ==
    IF k > Len(reps) THEN content
    ELSE apply_replacements(splice(content, reps[k].start, reps[k].end, reps[k].md),
                            reps, k + 1)

\* lines 292-315
rebuild_content_tables(result) ==
    IF result.tables = <<>> THEN result.content
    ELSE apply_replacements(result.content,
                            sorted_replacements(replacements(result.tables, 1)), 1)

\* _build_markdown_table applied to the first table of the result
BuildTable ==
    /\ di.out = None
    /\ di.tables # <<>>
    /\ di' = [di EXCEPT !.out = Some(build_markdown_table(di.tables[1]))]
    /\ UNCHANGED <<reply, fs, gemini_client, azure_di_client, collections, records, vstore, cache, task, units, completion>>

\* _rebuild_content_tables applied to the result
Rebuild ==
    /\ di.out = None
    /\ di' = [di EXCEPT !.out = Some(rebuild_content_tables(di))]
    /\ UNCHANGED <<reply, fs, gemini_client, azure_di_client, collections, records, vstore, cache, task, units, completion>>

(***************************************************************************)
(* The page cache of the MetadataStore, called directly: each action is    *)
(* one method call, and reply holds the call and what it returned.         *)
(***************************************************************************)
\* the texts a caller stores for page i of bytes h (the empty text included)
PageTexts(h, i) == {<<>>, <<Tok("pymupdf", h, i)>>, gemini_text(h, i)}

CacheAnswer(op, h, i, text, count) ==
    [op |-> op, coll |-> h, inputs |-> <<>>,
     results |-> <<[page_index |-> i, content |-> text, rowcount |-> count]>>,
     raised |-> FALSE, error |-> "", n |-> 1 - reply.n]

CachePage(h, i, content) ==
    /\ cache' = cache_page(cache, h, i, content)
    /\ reply' = CacheAnswer("cache_page", h, i, Some(content), 0)
    /\ UNCHANGED <<fs, gemini_client, azure_di_client, di, collections, records, vstore, task, units, completion>>

GetCachedPage(h, i) ==
    /\ reply' = CacheAnswer("get_cached_page", h, i, get_cached_page(cache, h, i), 0)
    /\ UNCHANGED <<fs, gemini_client, azure_di_client, di, collections, records, vstore, cache, task, units, completion>>

ClearPageCache(h) ==
    /\ cache' = clear_page_cache(cache, h)
    /\ reply' = CacheAnswer("clear_page_cache", h, 0, None,
                            clear_page_cache_rowcount(cache, h))
    /\ UNCHANGED <<fs, gemini_client, azure_di_client, di, collections, records, vstore, task, units, completion>>

(***************************************************************************)
(* Specifications.                                                         *)
(***************************************************************************)
InitStores ==
    /\ records = [d \in Docs |-> None]
    /\ vstore = [d \in Docs |-> <<>>]
    /\ cache = [h \in Hashes |-> [i \in AllPages |-> None]]
    /\ task = [t \in Tasks |-> IdleTask]
    /\ units = [t \in Tasks |-> NoUnits]
    /\ completion = [t \in Tasks |-> <<>>]
    /\ reply = NoReply
    /\ collections = {}
    /\ di = NoDi

NoOcr == \A t \in Tasks : task[t].pc # "ocr"

\* no indexing call is running
Quiet == \A t \in Tasks : task[t].pc = "idle"

\* One indexing call at a time on one file, whose bytes and modification
\* time change between the calls.
SeqTasks == {1}

\* the answers of the provider that end a call without a text
SeqHints == {[kind |-> "seconds", v |-> 0], NoHint}

SeqErrors == {[class |-> "ClientError", code |-> 400, hint |-> NoHint]}

SeqPaths == {"a.pdf"}

Init ==
    /\ fs \in [Paths -> [hash : Hashes, mtime : {1}]]
    /\ fs["b.pdf"].hash = "H1"
    /\ gemini_client \in BOOLEAN
    /\ azure_di_client = FALSE
    /\ InitStores

Next ==
    \/ \E t \in SeqTasks, p \in SeqPaths, c \in Collections, force \in BOOLEAN,
          m \in Methods : StartIndex(t, p, c, force, m, TailOutcomes)
    \/ \E t \in SeqTasks, i \in AllPages : Acquire(t, i)
    \/ \E t \in SeqTasks, i \in AllPages : OcrOk(t, i)
    \/ \E t \in SeqTasks, i \in AllPages, hint \in SeqHints : OcrRateLimited(t, i, hint)
    \/ \E t \in SeqTasks, i \in AllPages, err \in SeqErrors : OcrError(t, i, err)
    \/ \E t \in SeqTasks, i \in AllPages : Wake(t, i)
    \/ \E t \in SeqTasks : FinishIndex(t, TailOutcomes)
    \/ \E t \in SeqTasks : Reap(t)
    \/ \E p \in SeqPaths, c \in Collections, out \in RemoveOutcomes : Remove(p, c, out)
    \/ \E p \in SeqPaths : Quiet /\ Touch(p)
    \/ \E p \in SeqPaths : Quiet /\ Edit(p)
    \/ Crash

Spec == Init /\ [][Next]_vars

\* Two indexing calls at a time (of one index_files call or of two), on two
\* files that hold the same bytes and do not change; the OCR calls succeed
\* or fail at once and the tail runs to its end or fails at the insert.
PairOutcomes == {"ok", "add_exc"}

PairMethods == {"auto", "azure", "pymupdf"}

InitPair ==
    /\ fs = [p \in Paths |-> [hash |-> "H1", mtime |-> 1]]
    /\ gemini_client = TRUE
    /\ azure_di_client = FALSE
    /\ InitStores

NextPair ==
    \/ \E t \in Tasks, p \in Paths, c \in Collections, force \in BOOLEAN,
          m \in PairMethods : StartIndex(t, p, c, force, m, PairOutcomes)
    \/ \E t \in Tasks, i \in AllPages : Acquire(t, i)
    \/ \E t \in Tasks, i \in AllPages : OcrOk(t, i)
    \/ \E t \in Tasks, i \in AllPages, err \in SeqErrors : OcrError(t, i, err)
    \/ \E t \in Tasks : FinishIndex(t, PairOutcomes)
    \/ \E t \in Tasks : Reap(t)

SpecPair == InitPair /\ [][NextPair]_vars

\* One indexing call on a file of two scanned pages, with every answer the
\* provider can give to each call.
InitOcr ==
    /\ fs = [p \in Paths |-> [hash |-> "H1", mtime |-> 1]]
    /\ gemini_client = TRUE
    /\ azure_di_client = FALSE
    /\ InitStores

NextOcr ==
    \/ \E c \in Collections, force \in BOOLEAN :
          StartIndex(1, "a.pdf", c, force, "gemini", {"ok"})
    \/ \E i \in AllPages : Acquire(1, i)
    \/ \E i \in AllPages : OcrOk(1, i)
    \/ \E i \in AllPages, hint \in RetryHints : OcrRateLimited(1, i, hint)
    \/ \E i \in AllPages, err \in OtherErrors : OcrError(1, i, err)
    \/ \E i \in AllPages : Wake(1, i)
    \/ FinishIndex(1, {"ok"})
    \/ Reap(1)

SpecOcr == InitOcr /\ [][NextOcr]_vars

\* One indexing call at a time on one file, with every extraction method and
\* every configuration of the two cloud clients.
ExtractOutcomes == {"ok", "embed_exc"}

InitExtract ==
    /\ fs \in [Paths -> [hash : Hashes, mtime : {1}]]
    /\ fs["b.pdf"].hash = "H1"
    /\ gemini_client \in BOOLEAN
    /\ azure_di_client \in BOOLEAN
    /\ InitStores

NextExtract ==
    \/ \E c \in Collections, force \in BOOLEAN, m \in Methods :
          StartIndex(1, "a.pdf", c, force, m, ExtractOutcomes)
    \/ \E i \in AllPages : Acquire(1, i)
    \/ \E i \in AllPages : OcrOk(1, i)
    \/ \E i \in AllPages, hint \in SeqHints : OcrRateLimited(1, i, hint)
    \/ \E i \in AllPages, err \in SeqErrors : OcrError(1, i, err)
    \/ \E i \in AllPages : Wake(1, i)
    \/ FinishIndex(1, ExtractOutcomes)
    \/ Reap(1)

SpecExtract == InitExtract /\ [][NextExtract]_vars

\* Indexing calls on two files of the same bytes into two collections, and
\* deletions of the collections at any moment.
CollOutcomes == {"ok", "clear_exc"}

InitColl ==
    /\ fs = [p \in Paths |-> [hash |-> "H1", mtime |-> 1]]
    /\ gemini_client = TRUE
    /\ azure_di_client = FALSE
    /\ InitStores

NextColl ==
    \/ \E p \in Paths, c \in AllCollections :
          StartIndex(1, p, c, FALSE, "auto", CollOutcomes)
    \/ \E i \in AllPages : Acquire(1, i)
    \/ \E i \in AllPages : OcrOk(1, i)
    \/ FinishIndex(1, CollOutcomes)
    \/ Reap(1)
    \/ \E name \in AllCollections, out \in DeleteOutcomes : DeleteCollection(name, out)

SpecColl == InitColl /\ [][NextColl]_vars

\* Indexing calls on two files and two collections, with the files rewritten
\* and documents and collections removed between the calls.
RecordOutcomes == {"ok"}

InitRecords ==
    /\ fs = [p \in Paths |-> [hash |-> "H1", mtime |-> 1]]
    /\ gemini_client = TRUE
    /\ azure_di_client = FALSE
    /\ InitStores

NextRecords ==
    \/ \E p \in Paths, c \in AllCollections, force \in BOOLEAN :
          StartIndex(1, p, c, force, "gemini", RecordOutcomes)
    \/ \E i \in AllPages : Acquire(1, i)
    \/ \E i \in AllPages : OcrOk(1, i)
    \/ FinishIndex(1, RecordOutcomes)
    \/ Reap(1)
    \/ \E p \in Paths, c \in AllCollections : Quiet /\ Remove(p, c, "ok")
    \/ \E p \in SeqPaths : Quiet /\ Edit(p)
    \/ \E name \in AllCollections : Quiet /\ DeleteCollection(name, "ok")

SpecRecords == InitRecords /\ [][NextRecords]_vars

\* Tables of an analysis result on a grid of two rows and two columns: at
\* each place no cell or one cell, with its spans absent (0, read as 1) or 2
\* and its kind absent ("") or one of the kinds met at that place; the cells
\* in row-major order or the reverse; with or without caption and footnote.
GridRows == 0 .. 1

GridCols == 0 .. 1

SpanValues == <<0, 2>>

KindsAt(r, c) ==
    IF r = 0 /\ c = 0 THEN <<"", "stubHead", "columnHeader">>
    ELSE IF r = 0 THEN <<"", "content", "columnHeader">>
    ELSE IF c = 0 THEN <<"", "rowHeader", "content">>
    ELSE <<"", "content", "columnHeader">>

\* the text of the cell at a place, as the service returns it
RawContent(r, c) ==
    IF r = 0 /\ c = 0 THEN <<" ", "a", "\n", "b", "\n">>
    ELSE IF r = 0 THEN <<"c">>
    ELSE IF c = 0 THEN <<"d", " ">>
    ELSE <<"\n">>

CellOptions == 0 .. 12

\* option 0 is no cell at the place; the others are the twelve cells
CellAt(r, c, n) ==
    IF n = 0 THEN <<>>
    ELSE <<[row_index |-> r, column_index |-> c,
            row_span |-> SpanValues[((n - 1) % 2) + 1],
            column_span |-> SpanValues[(((n - 1) \div 2) % 2) + 1],
            kind |-> KindsAt(r, c)[((n - 1) \div 4) + 1],
            content |-> RawContent(r, c)]>>

RECURSIVE CellsFrom(_, _, _, _)
CellsFrom(opt, rows, cols, k) ==
    IF k >= rows * cols THEN <<>>
    ELSE CellAt(k \div cols, k % cols, opt[<<k \div cols, k % cols>>])
         \o CellsFrom(opt, rows, cols, k + 1)

MakeTable(rows, cols, opt, rev, extras) ==
    LET cells == CellsFrom(opt, rows, cols, 0) IN
    [row_count |-> rows, column_count |-> cols,
     cells |-> IF rev THEN reversed(cells) ELSE cells,
     spans |-> <<>>,
     caption |-> IF extras THEN Some(<<" ", "cap", " ">>) ELSE None,
     footnotes |-> IF extras THEN <<<<"fn", "\n">>>> ELSE <<>>]

InitRest ==
    /\ fs = [p \in Paths |-> [hash |-> "H1", mtime |-> 1]]
    /\ gemini_client = FALSE
    /\ azure_di_client = TRUE
    /\ records = [d \in Docs |-> None]
    /\ vstore = [d \in Docs |-> <<>>]
    /\ cache = [h \in Hashes |-> [i \in AllPages |-> None]]
    /\ task = [t \in Tasks |-> IdleTask]
    /\ units = [t \in Tasks |-> NoUnits]
    /\ completion = [t \in Tasks |-> <<>>]
    /\ reply = NoReply
    /\ collections = {}

InitTables ==
    /\ InitRest
    /\ \E rows \in {Cardinality(GridRows) - 1, Cardinality(GridRows)},
          cols \in {Cardinality(GridCols) - 1, Cardinality(GridCols)} :
          \E opt \in [(0 .. (rows - 1)) \X (0 .. (cols - 1)) -> CellOptions],
             rev \in BOOLEAN, extras \in BOOLEAN :
             di = [content |-> <<>>,
                   tables |-> <<MakeTable(rows, cols, opt, rev, extras)>>,
                   out |-> None]

NextTables == BuildTable

SpecTables == InitTables /\ [][NextTables]_vars

\* Analysis results: a text of TextLen different characters and up to
\* MaxTables tables of one cell, each with no span or with one span of 1 to
\* MaxSpanLen characters inside the text, in any order of the start offsets.
SourceText == [k \in 1 .. TextLen |-> "c" \o ToString(k - 1)]

SpanInputs ==
    {<<>>} \cup {<<[offset |-> p[1], length |-> p[2]]>> :
                    p \in {q \in (0 .. (TextLen - 1)) \X (1 .. MaxSpanLen) :
                              q[1] + q[2] <= TextLen}}

OneCellTable(j, spans) ==
    [row_count |-> 1, column_count |-> 1,
     cells |-> <<[row_index |-> 0, column_index |-> 0, row_span |-> 0,
                  column_span |-> 0, kind |-> "", content |-> <<"t" \o ToString(j)>>]>>,
     spans |-> spans, caption |-> None, footnotes |-> <<>>]

InitSubst ==
    /\ InitRest
    /\ \E n \in 0 .. MaxTables :
          \E spans \in [1 .. n -> SpanInputs] :
             di = [content |-> SourceText,
                   tables |-> [j \in 1 .. n |-> OneCellTable(j, spans[j])],
                   out |-> None]

NextSubst == Rebuild

SpecSubst == InitSubst /\ [][NextSubst]_vars

\* Calls of index_files and remove_documents with lists of paths, on two
\* files of the same bytes, a path with no file and a file of another type.
BatchOutcomes == {"ok", "clear_exc"}

IndexLists ==
    {<<"a.pdf">>, <<"a.pdf", "b.pdf">>, <<NoFile, "b.pdf">>, <<OtherFile, "a.pdf">>}

RemoveLists == {<<"a.pdf">>, <<"a.pdf", "b.pdf">>, <<NoFile, "b.pdf">>}

RemoveBatchOutcomes == {"ok", "clear_exc"}

\* the page cache alone: any sequence of put, get and clear on an empty table
InitCache ==
    /\ InitRest
    /\ di = NoDi

NextCache ==
    \/ \E h \in Hashes, i \in AllPages : \E content \in PageTexts(h, i) :
            CachePage(h, i, content)
    \/ \E h \in Hashes, i \in AllPages : GetCachedPage(h, i)
    \/ \E h \in Hashes : ClearPageCache(h)

SpecCache == InitCache /\ [][NextCache]_vars

InitBatch ==
    /\ fs = [p \in Paths |-> [hash |-> "H1", mtime |-> 1]]
    /\ gemini_client = TRUE
    /\ azure_di_client = FALSE
    /\ InitStores

NextBatch ==
    \/ \E b \in Batches, ps \in IndexLists, c \in Collections :
          IndexFiles(b, ps, c, FALSE, "auto")
    \/ \E t \in Tasks : PassSemaphore(t, BatchOutcomes)
    \/ \E t \in Tasks, i \in AllPages : Acquire(t, i)
    \/ \E t \in Tasks, i \in AllPages : OcrOk(t, i)
    \/ \E t \in Tasks, i \in AllPages, err \in SeqErrors : OcrError(t, i, err)
    \/ \E t \in Tasks : FinishIndex(t, BatchOutcomes)
    \/ \E t \in Tasks : Reap(t)
    \/ \E b \in Batches : IndexFilesReturn(b)
    \/ \E b \in Batches : IndexFilesRaise(b)
    \/ \E ps \in RemoveLists, c \in Collections,
          outs \in [1 .. 2 -> RemoveBatchOutcomes] :
              Quiet /\ RemoveDocuments(ps, c, outs)

SpecBatch == InitBatch /\ [][NextBatch]_vars

\* Two indexing calls at a time, one for each of two files of the same
\* bytes, forced or not, page by page with either method, with tails that
\* run to the end or fail at the embedding, and removals of the documents
\* at any moment.
SharedOutcomes == {"ok", "embed_exc"}

SharedMethods == {"auto", "gemini"}

\* coroutine 1 indexes a.pdf and coroutine 2 indexes b.pdf
PathOf(t) == IF t = 1 THEN "a.pdf" ELSE "b.pdf"

InitShared ==
    /\ fs = [p \in Paths |-> [hash |-> "H1", mtime |-> 1]]
    /\ gemini_client = TRUE
    /\ azure_di_client = FALSE
    /\ InitStores

NextShared ==
    \/ \E t \in Tasks, c \in Collections, force \in BOOLEAN, m \in SharedMethods :
          StartIndex(t, PathOf(t), c, force, m, SharedOutcomes)
    \/ \E t \in Tasks, i \in AllPages : Acquire(t, i)
    \/ \E t \in Tasks, i \in AllPages : OcrOk(t, i)
    \/ \E t \in Tasks : FinishIndex(t, SharedOutcomes)
    \/ \E t \in Tasks : Reap(t)
    \/ \E p \in Paths, c \in Collections : Remove(p, c, "ok")

SpecShared == InitShared /\ [][NextShared]_vars

\* The first index_files call of a process, over two files of two OCR pages each: more
\* files than the call's semaphore admits at once and more OCR tasks than
\* the rate limiter has permits.  The provider answers, rate-limits or
\* fails; the store calls of the tail succeed or raise.
LiveOutcomes == {"ok", "clear_exc"}

LiveLists == {<<"a.pdf", "b.pdf">>, <<"b.pdf", "b.pdf">>}

InitLive ==
    /\ fs = [p \in Paths |-> [hash |-> "H1", mtime |-> 1]]
    /\ gemini_client = TRUE
    /\ azure_di_client = FALSE
    /\ InitStores

\* the provider call of OCR task (t, i) returns or raises
CallReturns(t, i) ==
    \/ OcrOk(t, i)
    \/ \E hint \in SeqHints : OcrRateLimited(t, i, hint)
    \/ \E err \in SeqErrors : OcrError(t, i, err)

\* the gather of index_files call b returns or raises
IndexFilesEnds(b) == IndexFilesReturn(b) \/ IndexFilesRaise(b)

NextLive ==
    \/ \E ps \in LiveLists, c \in Collections :
          reply = NoReply /\ IndexFiles(1, ps, c, FALSE, "gemini")
    \/ \E t \in Tasks : PassSemaphore(t, LiveOutcomes)
    \/ \E t \in Tasks, i \in AllPages : Acquire(t, i)
    \/ \E t \in Tasks, i \in AllPages : CallReturns(t, i)
    \/ \E t \in Tasks, i \in AllPages : Wake(t, i)
    \/ \E t \in Tasks : FinishIndex(t, LiveOutcomes)
    \/ \E t \in Tasks : Reap(t)
    \/ IndexFilesEnds(1)

\* The event loop runs every coroutine that is ready: one that can take a
\* permit takes it, a provider call and a sleep return, a gather whose tasks
\* have ended goes on.  Nothing obliges a client to call index_files.
LiveFairness ==
    /\ \A t \in Tasks : WF_vars(PassSemaphore(t, LiveOutcomes))
    /\ \A t \in Tasks, i \in AllPages : WF_vars(Acquire(t, i))
    /\ \A t \in Tasks, i \in AllPages : WF_vars(CallReturns(t, i))
    /\ \A t \in Tasks, i \in AllPages : WF_vars(Wake(t, i))
    /\ \A t \in Tasks : WF_vars(FinishIndex(t, LiveOutcomes))
    /\ \A t \in Tasks : WF_vars(Reap(t))
    /\ WF_vars(IndexFilesEnds(1))

SpecLive == InitLive /\ [][NextLive]_vars /\ LiveFairness

(***************************************************************************)
(* Properties.                                                             *)
(***************************************************************************)
DocOf(tk) == make_doc_id(tk.path, tk.coll)

\* FileIndexResult.success
Success(res) == res \in {"skipped", "indexed"}

\* coroutine t returns in this step
Returns(t) == task[t].pc # "done" /\ task'[t].pc = "done"

\* coroutine t is called in this step (and may return in it)
Called(t) == task[t].pc = "idle" /\ task'[t].pc # "idle"

\* the row of (path, collection) in the documents table, read off the table
RowOf(file_path, collection) ==
    {d \in Docs : records[d] # None /\ records[d][1].file_path = file_path
                  /\ records[d][1].collection = collection}

\* C1: when a full reindex returns success, the vector store holds exactly
\* the chunks of the new content for the doc_id, also when an earlier run
\* had inserted chunks for it and stopped before the record was written.
C1_ReplacementAtomicity ==
    [][\A t \in Tasks :
          (Returns(t) /\ task'[t].res = "indexed")
              => Len(vstore'[DocOf(task'[t])]) = Len(chunk_text(task'[t].content))]_vars

\* a successful reindex that found chunks of the doc_id without a record
C1_Witness ==
    \E t \in Tasks :
        /\ task[t].pc = "done" /\ task[t].res = "indexed" /\ task[t].orphans
        /\ Len(vstore[DocOf(task[t])]) = Len(chunk_text(task[t].content))

\* the record of d and its vector chunks agree: the chunks are there, as
\* many as recorded, and come from the bytes the record names
Consistent(recs, vs, d) ==
    recs[d] # None =>
        /\ vs[d] # <<>>
        /\ Len(vs[d]) = recs[d][1].chunk_count
        /\ \A k \in 1 .. Len(vs[d]) : vs[d][k].text.h = recs[d][1].file_hash

\* C2 (as claimed): a reindex that fails at any step never leaves a
\* DocumentRecord for the doc_id with absent or stale vector chunks.
C2_FailureLeavesNoRecordWithoutChunks ==
    [][\A t \in Tasks :
          (Returns(t) /\ ~Success(task'[t].res)
           /\ Consistent(records, vstore, DocOf(task'[t])))
              => Consistent(records', vstore', DocOf(task'[t]))]_vars

\* C4: force=false and a record with the file's current mtime: the call
\* returns success at once, extracts, chunks and embeds nothing, and leaves
\* the vector store, the metadata store and the page cache as they were.
C4_UnchangedIsSkipped ==
    [][\A t \in Tasks :
          (Called(t) /\ ~task'[t].force
           /\ \E d \in RowOf(task'[t].path, task'[t].coll) :
                  records[d][1].file_mtime = fs[task'[t].path].mtime)
              => /\ task'[t].pc = "done" /\ Success(task'[t].res)
                 /\ ~task'[t].extracted /\ ~task'[t].chunked /\ ~task'[t].embedded
                 /\ UNCHANGED <<vstore, records, cache, units>>]_vars

C4_Witness ==
    \E t \in Tasks :
        /\ task[t].pc = "done" /\ task[t].res = "skipped" /\ ~task[t].force
        /\ \E d \in RowOf(task[t].path, task[t].coll) :
              records[d][1].file_mtime = task[t].mtime

\* C5: force=false, a record whose mtime differs from the file's and whose
\* hash equals the file's: the call changes the record's mtime and nothing
\* else, and extracts and embeds nothing.
C5_HashPrecedence ==
    [][\A t \in Tasks :
          \A d \in RowOf(task'[t].path, task'[t].coll) :
              (Called(t) /\ ~task'[t].force
               /\ records[d][1].file_mtime # fs[task'[t].path].mtime
               /\ records[d][1].file_hash = fs[task'[t].path].hash)
                  => /\ task'[t].pc = "done" /\ Success(task'[t].res)
                     /\ ~task'[t].extracted /\ ~task'[t].embedded
                     /\ records' = [records EXCEPT ![d] =
                            Some([records[d][1] EXCEPT
                                     !.file_mtime = fs[task'[t].path].mtime])]
                     /\ UNCHANGED <<vstore, cache, units>>]_vars

\* a skipped call after which the record's mtime is the one the call read,
\* and the call was not the plain same-mtime skip: the file was touched
C5_Witness ==
    \E t \in Tasks :
        /\ task[t].pc = "done" /\ task[t].res = "skipped" /\ task[t].touched
        /\ \E d \in RowOf(task[t].path, task[t].coll) :
              /\ records[d][1].file_mtime = task[t].mtime
              /\ records[d][1].file_hash = fs[task[t].path].hash

\* C6 (as claimed): whenever no operation is in flight, the page cache holds
\* no entry under the content hash of a document that has a DocumentRecord.
C6_NoCacheForIndexedHash ==
    NoOcr =>
        \A d \in Docs : records[d] # None =>
            \A i \in AllPages : cache[records[d][1].file_hash][i] = None

\* C6 (amended): when a full reindex returns success, the page cache holds
\* no entry under the content hash of the record it wrote.
C6_SuccessClearsCache ==
    [][\A t \in Tasks :
          (Returns(t) /\ task'[t].res = "indexed")
              => /\ records'[DocOf(task'[t])] # None
                 /\ records'[DocOf(task'[t])][1].file_hash = task'[t].hash
                 /\ \A i \in AllPages : cache'[task'[t].hash][i] = None]_vars

\* a successful page-by-page reindex, which wrote pages to the cache
C6_Witness ==
    \E t \in Tasks :
        /\ task[t].pc = "done" /\ task[t].res = "indexed"
        /\ task[t].method \in {"auto", "gemini"}
        /\ \A i \in AllPages : cache[task[t].hash][i] = None

\* the text md_pages holds for page k - 1 once the OCR results are filled in
PageText(md, us, k) ==
    IF md[k].kind = "task" THEN us[k - 1].result[1] ELSE md[k].text

\* C3: a page-by-page extraction that returns content returns the texts of
\* the pages (cached, converted locally, or the OCR result) joined in
\* ascending page index, whatever order the OCR tasks ended in; every
\* position of the output holds text of its own page.
C3_PageOrder ==
    [][\A t \in Tasks :
          (Returns(t) /\ task'[t].method \in Hybrid
           /\ task'[t].res \notin {"skipped", "extract_failed"})
              => LET md == task'[t].md
                     texts == [k \in 1 .. Len(md) |-> PageText(md, units[t], k)]
                 IN  /\ Len(md) = page_count(task'[t].hash)
                     /\ task'[t].content = Join(texts)
                     /\ \A k \in 1 .. Len(md) :
                            \A n \in 1 .. Len(texts[k]) : texts[k][n].i = k - 1]_vars

\* two OCR tasks ended in the reverse of page order and the content came out
\* in page order
C3_Witness ==
    \E t \in Tasks :
        /\ task[t].pc = "done" /\ task[t].reordered
        /\ task[t].res = "indexed"
        /\ Len(task[t].content) = 3
        /\ task[t].content[1].i = 0 /\ task[t].content[3].i = 1

\* C7: extract_pdf returns from the gather only when every OCR task of the
\* document has ended; it fails the document exactly when one of them
\* raised, and failed_pages names each page whose task raised, once, and no
\* other page.
C7_FailureAfterAllUnits ==
    [][\A t \in Tasks :
          (Returns(t) /\ task[t].pc = "ocr")
              => LET raised == {i \in AllPages : units[t][i].st = "exc"}
                     failed == task'[t].failed
                 IN  /\ \A i \in AllPages : units[t][i].st \in {"none", "ok", "exc"}
                     /\ (task'[t].res = "extract_failed") <=> (raised # {})
                     /\ {failed[k] : k \in 1 .. Len(failed)} = {i + 1 : i \in raised}
                     /\ Len(failed) = Cardinality(raised)]_vars

\* a document failed over one page while the OCR task of its other page had
\* returned a text
C7_Witness ==
    \E t \in Tasks :
        /\ task[t].pc = "done" /\ task[t].res = "extract_failed"
        /\ Len(task[t].md) = 2
        /\ task[t].md[1].kind = "task" /\ task[t].md[2].kind = "task"
        /\ Len(task[t].failed) = 1
        /\ \E i \in AllPages : cache[task[t].hash][i] # None

\* what C8 says of the state after the step in which t's extraction failed
\* over its OCR pages: entries for exactly the pages that did not fail, and
\* a force=false extraction of the same bytes converts the failed pages only
ResumeState(t) ==
    LET h == task'[t].hash
        failed == task'[t].failed
        F == {failed[k] - 1 : k \in 1 .. Len(failed)}
    IN  /\ \A i \in PageIdx(h) : (cache'[h][i] # None) <=> (i \notin F)
        /\ \A m \in Hybrid :
              LET lp == page_loop(h, m, gemini_client, 0,
                            [cache |-> cache', md |-> <<>>, units |-> NoUnits])
              IN  \A k \in 1 .. Len(lp.md) :
                      (lp.md[k].kind # "cached") <=> (k - 1 \in F)

FailsOverPages(t) ==
    Returns(t) /\ task'[t].res = "extract_failed" /\ task'[t].failed # <<>>

\* C8 (as claimed): after a page-by-page extraction failed over its OCR
\* pages, every page converted successfully has a page-cache entry and no
\* failed page has one, so that the next force=false extraction converts the
\* failed pages only.
C8_ResumeAfterPartialFailure ==
    [][\A t \in Tasks : FailsOverPages(t) => ResumeState(t)]_vars

\* C8 (amended): the same, when no other call wrote or deleted page-cache
\* entries of the hash while the extraction waited for its OCR tasks.
C8_ResumeWhenUndisturbed ==
    [][\A t \in Tasks :
          (FailsOverPages(t) /\ ~task'[t].dirty) => ResumeState(t)]_vars

\* a failed extraction that left the entry of a page it converted
C8_Witness ==
    \E t \in Tasks :
        /\ task[t].pc = "done" /\ task[t].res = "extract_failed"
        /\ ~task[t].dirty
        /\ task[t].failed = <<2>>
        /\ cache[task[t].hash][0] # None /\ cache[task[t].hash][1] = None

\* C9: a page-by-page extraction with force=false gives every page that has
\* an entry under the file's hash the cached text, and neither converts it
\* locally nor creates an OCR task for it.
C9_CacheReuse ==
    [][\A t \in Tasks :
          (Called(t) /\ task'[t].extracted /\ ~task'[t].force
           /\ task'[t].method \in Hybrid)
              => \A i \in PageIdx(task'[t].hash) :
                    cache[task'[t].hash][i] # None
                        => /\ task'[t].md[i + 1] =
                                [kind |-> "cached", text |-> cache[task'[t].hash][i][1]]
                           /\ units'[t][i] = NoUnit]_vars

\* an extraction took one page from the cache and created an OCR task for
\* another
C9_Witness ==
    \E t \in Tasks :
        /\ task[t].pc = "ocr" /\ ~task[t].force
        /\ \E j, k \in 1 .. Len(task[t].md) :
              task[t].md[j].kind = "cached" /\ task[t].md[k].kind = "task"

\* C10: with force=true the entries of the file's hash are deleted before
\* the first lookup: no page is taken from the cache, every page is converted
\* anew, and the only entries under the hash afterwards are those the
\* extraction wrote itself.
C10_ForcedReextraction ==
    [][\A t \in Tasks :
          (Called(t) /\ task'[t].extracted /\ task'[t].force)
              => LET h == task'[t].hash
                     md == task'[t].md
                 IN  IF task'[t].method \in Hybrid
                     THEN /\ Len(md) = page_count(h)
                          /\ \A k \in 1 .. Len(md) :
                                /\ md[k].kind # "cached"
                                /\ md[k].kind = "task" => cache'[h][k - 1] = None
                                /\ md[k].kind = "pymupdf" =>
                                      /\ md[k].text = to_markdown_page(h, k - 1)
                                      /\ cache'[h][k - 1] \in {None, Some(md[k].text)}
                     ELSE \A i \in AllPages : cache'[h][i] = None]_vars

\* a forced extraction that found entries under the hash, converted a page
\* locally and created an OCR task for another, while another call on the
\* same bytes waits for its OCR task
C10_Witness ==
    \E t, u \in Tasks :
        /\ t # u /\ task[u].pc = "ocr" /\ task[u].hash = task[t].hash
        /\ task[t].pc = "ocr" /\ task[t].force /\ task[t].purged
        /\ \E k \in 1 .. Len(task[t].md) : task[t].md[k].kind = "pymupdf"
        /\ \A k \in 1 .. Len(task[t].md) : task[t].md[k].kind # "cached"

IsRateLimit(err) == err.class = "ClientError" /\ err.code = 429

\* the OCR task of page i of coroutine t gets an answer in this step
Answered(t, i) == units[t][i].st = "call" /\ units'[t][i].st # "call"

\* C11: one OCR task makes at most max_retries + 1 = 3 provider calls; after
\* a rate-limited call it sleeps as long as the Retry-After header says (the
\* seconds given, or the time left to the date given, not less than 0) and
\* calls again only after the sleep; a rate-limited third call ends the task
\* with the error, and a task that ended with an error calls no more.
C11_RetryBudget ==
    [][\A t \in Tasks, i \in AllPages :
          LET u == units[t][i]
              v == units'[t][i]
          IN  /\ v.calls <= max_retries + 1
              /\ (Answered(t, i) /\ v.st = "sleep") =>
                    /\ v.last # None /\ IsRateLimit(v.last[1])
                    /\ LET hint == v.last[1].hint IN
                          /\ hint.kind \in {"seconds", "http_date"}
                          /\ v.sleep = IF hint.kind = "seconds" \/ hint.v >= 0
                                       THEN hint.v ELSE 0
              /\ u.st = "sleep" => v.st \in {"sleep", "wait"} /\ v.calls = u.calls
              /\ (Answered(t, i) /\ u.calls = max_retries + 1
                  /\ v.last # None /\ IsRateLimit(v.last[1])) => v.st = "exc"
              /\ u.st = "exc" => v.st \in {"exc", "none"}]_vars

\* an OCR task that was rate-limited three times, with a usable header the
\* third time, and ended with the error
C11_Witness ==
    \E t \in Tasks, i \in AllPages :
        /\ units[t][i].st = "exc" /\ units[t][i].calls = max_retries + 1
        /\ units[t][i].last # None /\ IsRateLimit(units[t][i].last[1])
        /\ units[t][i].last[1].hint.kind = "seconds"

\* C12 (as claimed): a 429 answer to the first or second call of an OCR task
\* never ends the task: the task sleeps and calls again, whatever the answer
\* carries.
C12_RateLimitNeverSurfaces ==
    [][\A t \in Tasks, i \in AllPages :
          (Answered(t, i) /\ units[t][i].calls <= max_retries
           /\ units'[t][i].last # None /\ IsRateLimit(units'[t][i].last[1]))
              => units'[t][i].st = "sleep"]_vars

\* C13: an OCR call that ends in an error other than a 429 ends the task with
\* that error in the same step: no sleep, no further call.
C13_OtherErrorsNotRetried ==
    [][\A t \in Tasks, i \in AllPages :
          LET u == units[t][i]
              v == units'[t][i]
          IN  /\ (Answered(t, i) /\ v.last # None /\ ~IsRateLimit(v.last[1]))
                    => v.st = "exc" /\ v.sleep = 0 /\ v.calls = u.calls
              /\ (u.st = "exc" /\ u.last # None /\ ~IsRateLimit(u.last[1]))
                    => v.st \in {"none"} \/ v = u]_vars

\* an OCR task whose second call ended in a server error, after a
\* rate-limited first call
C13_Witness ==
    \E t \in Tasks, i \in AllPages :
        /\ units[t][i].st = "exc" /\ units[t][i].calls = 2
        /\ units[t][i].last # None /\ units[t][i].last[1].class = "ServerError"

\* C14: the provider calls in flight, over all pages of all files, never
\* exceed the permits of the shared semaphore; a task starts a call only in
\* a step that takes a free permit, and holds none while it waits, sleeps or
\* has ended.
C14_OcrConcurrencyBound ==
    [][/\ Cardinality(InFlight') <= GeminiPermits
       /\ \A t \in Tasks, i \in AllPages :
             units'[t][i].calls > units[t][i].calls
                 => /\ units[t][i].st = "wait" /\ units'[t][i].st = "call"
                    /\ units'[t][i].calls = units[t][i].calls + 1
                    /\ Cardinality(InFlight) < GeminiPermits]_vars

\* every permit is taken while the OCR task of another file waits for one
C14_Witness ==
    /\ Cardinality(InFlight) = GeminiPermits
    /\ \E tp \in InFlight, u \in Tasks, i \in AllPages :
          u # tp[1] /\ units[u][i].st = "wait"

\* C17: when the text extracted from a file yields no chunk, the call
\* returns a failure and the step that returns it deletes and inserts no
\* vector chunk and creates and changes no DocumentRecord.
C17_EmptyContentNoChange ==
    [][\A t \in Tasks :
          (Returns(t) /\ task'[t].chunked /\ chunk_text(task'[t].content) = <<>>)
              => /\ ~Success(task'[t].res)
                 /\ UNCHANGED <<vstore, records>>]_vars

\* a call that found no text in the file, while the chunks and the record
\* of an earlier version of the file stand
C17_Witness ==
    \E t \in Tasks :
        /\ task[t].pc = "done" /\ task[t].res = "empty" /\ task[t].chunked
        /\ vstore[DocOf(task[t])] # <<>>
        /\ records[DocOf(task[t])] # None
        /\ records[DocOf(task[t])][1].file_hash # task[t].hash

\* C18: when extraction, chunking, embedding and the insertion of the chunks
\* of a file all succeeded, the call reports success and the record of the
\* doc_id holds the file's current hash and modification time and a
\* chunk_count equal to the number of chunks stored for the doc_id.
C18_SuccessfulReindexRecord ==
    [][\A t \in Tasks :
          (Returns(t) /\ task'[t].embedded)
              => LET d == DocOf(task'[t]) IN
                 (vstore'[d] # <<>>
                  /\ vstore'[d] = Points(chunk_text(task'[t].content), 1))
                     => /\ task'[t].res = "indexed"
                        /\ records'[d] # None
                        /\ records'[d][1].file_hash = task'[t].hash
                        /\ records'[d][1].file_mtime = task'[t].mtime
                        /\ records'[d][1].chunk_count = Len(vstore'[d])]_vars

\* the step removes the page-cache entry of page i of hash h
Uncached(h, i) == cache[h][i] # None /\ cache'[h][i] = None

\* the step is the one in which coroutine t returns success after the upsert
\* of the record of its file
ReturnsIndexed(t) ==
    /\ Returns(t) /\ task'[t].res = "indexed"
    /\ records'[DocOf(task'[t])] # None
    /\ records'[DocOf(task'[t])][1].file_hash = task'[t].hash

\* C19 as stated: a step of an indexing call removes page-cache entries only
\* when it returns success after the upsert, and then only those of the
\* file's hash; a step that returns a failure removes none.
C19_ClearOnlyAfterUpsert ==
    [][\A t \in Tasks : task'[t].pc # task[t].pc /\ task'[t].pc # "idle" =>
          \A h \in Hashes, i \in AllPages :
              Uncached(h, i) => ReturnsIndexed(t) /\ task'[t].hash = h]_vars

\* C19, amended: apart from the purge that a call with force=true makes
\* before it extracts, a step of an indexing call removes page-cache entries
\* only when it returns success after the upsert, and then only those of
\* the file's hash; a call that returns a failure leaves in place every
\* entry that its extraction wrote or found.
C19_ClearAfterUpsertOrForce ==
    [][\A t \in Tasks : task'[t].pc # task[t].pc /\ task'[t].pc # "idle" =>
          /\ \A h \in Hashes, i \in AllPages :
                Uncached(h, i) =>
                    /\ task'[t].hash = h
                    /\ \/ ReturnsIndexed(t)
                       \/ Called(t) /\ task'[t].force
          /\ (Returns(t) /\ ~Success(task'[t].res) /\ ~(Called(t) /\ task'[t].force))
                => \A h \in Hashes, i \in AllPages : ~Uncached(h, i)]_vars

\* a call whose extraction wrote a page to the cache returned a failure of
\* the embedding or of a store, and the page is still cached
C19_Witness ==
    \E t \in Tasks, i \in AllPages :
        /\ task[t].pc = "done" /\ task[t].res = "index_failed"
        /\ task[t].extracted /\ task[t].embedded
        /\ i + 1 <= Len(task[t].md) /\ task[t].md[i + 1].kind = "task"
        /\ cache[task[t].hash][i] # None

\* the files inside the indexing sequence: their coroutine is past its
\* semaphore and has not returned
FilesInside == {t \in Tasks : task[t].pc = "ocr"}

\* C15 as stated: at every moment at most MAX_CONCURRENT_FILES files are
\* inside the indexing sequence.
C15_FileConcurrencyBound == Cardinality(FilesInside) <= MaxConcurrentFiles

\* C15, amended: of the files of one index_files call at most
\* MAX_CONCURRENT_FILES are inside the indexing sequence at every moment,
\* and a coroutine enters it only in a step that finds a permit of the
\* call's semaphore free; each file runs its own sequence.
C15_FileBoundPerCall ==
    [][/\ \A b \in Batches :
             Cardinality({t \in FilesInside' : task'[t].batch = b}) <= MaxConcurrentFiles
       /\ \A t \in Tasks :
             (task[t].pc = "pending" /\ task'[t].pc # "pending")
                 => /\ Cardinality({u \in FilesInside : task[u].batch = task[t].batch})
                           < MaxConcurrentFiles
                    /\ \A u \in Tasks \ {t} :
                          task'[u].pc = task[u].pc /\ units'[u] = units[u]]_vars

\* every permit of a call's semaphore is taken while another file of the
\* same call waits for one
C15_Witness ==
    \E t, u \in Tasks :
        /\ task[t].pc = "pending" /\ task[u].pc = "ocr"
        /\ task[t].batch = task[u].batch
        /\ Cardinality({v \in FilesInside : task[v].batch = task[u].batch})
               = MaxConcurrentFiles

\* the step is the end of an index_files or remove_documents call
BatchEnds == reply' # reply

\* C16: a call of index_files or remove_documents returns one result per
\* input path, in the order of the inputs, whatever failed for one of them.
C16_BatchOneResultPerInput ==
    [][BatchEnds =>
          /\ ~reply'.raised
          /\ Len(reply'.results) = Len(reply'.inputs)
          /\ \A k \in 1 .. Len(reply'.inputs) :
                reply'.results[k].file_path = reply'.inputs[k]]_vars

\* the step is a remove_documents call that returns its list
RemoveReturns ==
    BatchEnds /\ reply'.op = "remove_documents" /\ ~reply'.raised

\* C20: after remove_documents has processed a path with a record in the
\* collection, the vector store holds no chunk of its doc_id, the page cache
\* no entry for its content hash, and the record is gone; for a path with
\* no record the entry reports a failure; nothing else in the stores
\* changes.
C20_RemovalClearsDocument ==
    [][RemoveReturns =>
          LET n == Len(reply'.inputs)
              had(k) == get_document_by_path(records, reply'.inputs[k], reply'.coll)
              gone == {had(k)[1] : k \in {j \in 1 .. n : had(j) # None}}
          IN  /\ Len(reply'.results) = n
              /\ \A k \in 1 .. n :
                    IF had(k) = None
                    THEN reply'.results[k] = FileIndexResult(reply'.inputs[k], "not_found")
                    ELSE /\ reply'.results[k] = FileIndexResult(reply'.inputs[k], "removed")
                         /\ vstore'[had(k)[1].doc_id] = <<>>
                         /\ \A i \in AllPages : cache'[had(k)[1].file_hash][i] = None
                         /\ records'[had(k)[1].doc_id] = None
                         /\ get_document_by_path(records', reply'.inputs[k],
                                                 reply'.coll) = None
              /\ \A d \in Docs \ {g.doc_id : g \in gone} :
                    vstore'[d] = vstore[d] /\ records'[d] = records[d]
              /\ \A h \in Hashes \ {g.file_hash : g \in gone} :
                    cache'[h] = cache[h]]_vars

\* a call that removed the first path, with its chunks, cached pages and
\* record, and found no record of the second
C20_Witness ==
    /\ reply.op = "remove_documents" /\ ~reply.raised
    /\ Len(reply.results) = 2
    /\ reply.results[1].res = "removed" /\ reply.results[2].res = "not_found"
    /\ Quiet
    /\ \A d \in Docs : vstore[d] = <<>> /\ records[d] = None
    /\ \A h \in Hashes, i \in AllPages : cache[h][i] = None

\* the step is the end of a delete_collection call
DeleteEnds == BatchEnds /\ reply'.op = "delete_collection"

\* the DocumentRecords of collection name
RecordsOf(recs, name) ==
    {recs[d][1] : d \in {e \in Docs : recs[e] # None /\ recs[e][1].collection = name}}

\* C21: when delete_collection(c) returns and no other operation is in
\* flight, the vector store holds no chunk of c, the page cache no entry for
\* a hash that a record of c referenced, and neither the collection nor a
\* record of c exists; for a collection that does not exist the call fails
\* with CollectionNotFound and changes nothing.
C21_CollectionCascade ==
    [][(DeleteEnds /\ Quiet) =>
          LET name == reply'.coll IN
          /\ collection_exists(collections, name) <=>
                 reply'.error # "CollectionNotFoundError"
          /\ reply'.error = "CollectionNotFoundError"
                 => UNCHANGED <<vstore, cache, records, collections>>
          /\ ~reply'.raised
                 => /\ \A d \in Docs : collection_of(d) = name => vstore'[d] = <<>>
                    /\ \A r \in RecordsOf(records, name), i \in AllPages :
                          cache'[r.file_hash][i] = None
                    /\ RecordsOf(records', name) = {}
                    /\ ~collection_exists(collections', name)
                    /\ \A d \in Docs : collection_of(d) # name =>
                          vstore'[d] = vstore[d] /\ records'[d] = records[d]
                    /\ collections' = collections \ {name}]_vars

\* collection c has been deleted with its chunks and records while those of
\* collection d stand
C21_Witness ==
    /\ reply.op = "delete_collection" /\ ~reply.raised /\ reply.coll = "c"
    /\ Quiet
    /\ collections = {"d"}
    /\ \A d \in Docs : collection_of(d) = "c" => vstore[d] = <<>> /\ records[d] = None
    /\ \E d \in Docs : collection_of(d) = "d" /\ vstore[d] # <<>> /\ records[d] # None

\* C22: at any moment there is at most one record for a pair of collection
\* and file path, and every record carries the doc_id that is the function
\* make_doc_id of its pair, so the doc_id of a pair is the same in every
\* record written for it.
C22_RecordUniqueness ==
    /\ \A d, e \in Docs :
          (/\ records[d] # None /\ records[e] # None
           /\ records[d][1].file_path = records[e][1].file_path
           /\ records[d][1].collection = records[e][1].collection) => d = e
    /\ \A d \in Docs :
          records[d] # None =>
              records[d][1].doc_id =
                  make_doc_id(records[d][1].file_path, records[d][1].collection)

\* the record of a.pdf in collection c has been written again after the file
\* was rewritten, beside the records of the same path in collection d and of
\* another path in collection c
C22_Witness ==
    /\ records[make_doc_id("a.pdf", "c")] # None
    /\ records[make_doc_id("a.pdf", "c")][1].file_hash = "H2"
    /\ records[make_doc_id("a.pdf", "d")] # None
    /\ records[make_doc_id("a.pdf", "d")][1].file_hash = "H1"
    /\ records[make_doc_id("b.pdf", "c")] # None

\* the step is the one in which coroutine t starts an extraction
Extracts(t) == Called(t) /\ task'[t].extracted

\* C23: with the structured-extraction client configured and method auto or
\* azure, an extraction started by the indexer goes the whole-document way to
\* the structured provider: no page is looked up, converted or sent to OCR.
C23_StructuredPath ==
    [][\A t \in Tasks :
          (Extracts(t) /\ azure_di_client /\ task'[t].method \in {"auto", "azure"})
              => /\ task'[t].route = "azure"
                 /\ task'[t].md = <<>>
                 /\ units'[t] = NoUnits]_vars

\* the page cache of hash h after the purge of a forced extraction
AfterPurge(t, h) ==
    IF task'[t].force THEN clear_page_cache(cache, h)[h] ELSE cache[h]

\* C24: with method pymupdf, or method auto and no OCR client (and no
\* structured client), the extraction converts the whole document in one
\* step: no page is looked up in the page cache or written to it, and no OCR
\* task is created.
C24_LocalOnlyPath ==
    [][\A t \in Tasks :
          (/\ Extracts(t)
           /\ \/ task'[t].method = "pymupdf"
              \/ task'[t].method = "auto" /\ ~gemini_client /\ ~azure_di_client)
              => /\ task'[t].route = "pymupdf"
                 /\ task'[t].md = <<>>
                 /\ units'[t] = NoUnits
                 /\ task'[t].res # "indexed" =>
                        cache'[task'[t].hash] = AfterPurge(t, task'[t].hash)]_vars

\* the capability that the method names is absent (pymupdf names none)
Absent(method) ==
    \/ method = "pymupdf"
    \/ method = "gemini" /\ ~gemini_client
    \/ method = "auto" /\ ~gemini_client
    \/ method = "azure" /\ ~azure_di_client

\* the extraction that coroutine t starts completes in the same step, with
\* no OCR task, on the text of the local converter
CompletesLocally(t) ==
    /\ task'[t].pc = "done"
    /\ task'[t].res # "extract_failed"
    /\ units'[t] = NoUnits
    /\ task'[t].content = to_markdown_doc(task'[t].hash)

RECURSIVE SplitAt(_, _)
SplitAt(s, sep) ==
    IF \A k \in 1 .. Len(s) : s[k] # sep THEN <<s>>
    ELSE LET k == CHOOSE j \in 1 .. Len(s) :
                      s[j] = sep /\ \A i \in 1 .. (j - 1) : s[i] # sep
         IN  <<SubSeq(s, 1, k - 1)>> \o SplitAt(SubSeq(s, k + 1, Len(s)), sep)

\* the table that was rendered and the lines of its rendering
Rendered == di.out # None /\ Len(di.tables) = 1 /\ di.content = <<>>

TheTable == di.tables[1]

OutLines == SplitAt(di.out[1], "\n")

\* the lines of the table proper, after the caption's two lines and before
\* the footnotes' lines
TableLines ==
    LET first == IF TheTable.caption = None THEN 1 ELSE 3
        last == Len(OutLines) - 2 * Len(TheTable.footnotes)
    IN  SubSeq(OutLines, first, last)

\* the cells of a pipe-table line: what stands between its pipes
PipeCells(line) ==
    LET pieces == SplitAt(line, "|") IN SubSeq(pieces, 2, Len(pieces) - 1)

IsPipeLine(line) == Len(line) >= 2 /\ line[1] = "|" /\ line[Len(line)] = "|"

IsSeparator(line) ==
    /\ IsPipeLine(line)
    /\ PipeCells(line) = [c \in 1 .. TheTable.column_count |-> <<"---">>]

\* some cell of the table spans more than one row or column
Spanning(table) ==
    \E k \in 1 .. Len(table.cells) :
        table.cells[k].row_span > 1 \/ table.cells[k].column_span > 1

\* the text of the cell at a place of the grid, empty where there is none
TextAt(table, r, c) ==
    LET at == {k \in 1 .. Len(table.cells) :
                  table.cells[k].row_index = r /\ table.cells[k].column_index = c}
    IN  IF at = {} THEN <<>> ELSE cell_content(table.cells[CHOOSE k \in at : TRUE])

\* the last row that holds a cell of a header kind, row 0 when there is none
LastHeaderRow(table) ==
    LET rows == {r \in 0 .. (table.row_count - 1) :
                    \E k \in 1 .. Len(table.cells) :
                        /\ table.cells[k].row_index = r
                        /\ table.cells[k].kind \in {"columnHeader", "rowHeader", "stubHead"}}
    IN  IF rows = {} THEN 0 ELSE CHOOSE r \in rows : \A q \in rows : q <= r

\* C27: a table with no spanning cell is rendered as a pipe table: one line
\* per grid row, each of exactly column_count cells that hold the texts of
\* the cells at (row_index, column_index), and exactly one separator line,
\* right after the last row that holds a header-kind cell, or after row 0
\* when no row holds one.
C27_MarkdownTable ==
    (Rendered /\ ~Spanning(TheTable)) =>
        LET sep == LastHeaderRow(TheTable) IN
        /\ Len(TableLines) = TheTable.row_count + 1
        /\ \A j \in 1 .. Len(TableLines) : IsPipeLine(TableLines[j])
        /\ \A j \in 1 .. Len(TableLines) : IsSeparator(TableLines[j]) <=> j = sep + 2
        /\ \A r \in 0 .. (TheTable.row_count - 1) :
              LET line == TableLines[IF r <= sep THEN r + 1 ELSE r + 2] IN
              /\ Len(PipeCells(line)) = TheTable.column_count
              /\ \A c \in 0 .. (TheTable.column_count - 1) :
                    PipeCells(line)[c + 1] = TextAt(TheTable, r, c)

\* a table of two rows and two columns with four cells and a caption, the
\* header-kind cells in both rows, has been rendered with its separator
\* after the second row
C27_Witness ==
    /\ Rendered /\ ~Spanning(TheTable)
    /\ TheTable.row_count = 2 /\ TheTable.column_count = 2
    /\ Len(TheTable.cells) = 4
    /\ TheTable.caption # None
    /\ \E k \in 1 .. 4 : TheTable.cells[k].row_index = 0
                          /\ TheTable.cells[k].kind = "columnHeader"
    /\ LastHeaderRow(TheTable) = 1
    /\ IsSeparator(TableLines[3])
    /\ PipeCells(TableLines[1]) = <<<<"a", " ", "b">>, <<"c">>>>

\* the cell of the table at a place of the grid, as a set of indices into
\* the list of cells
CellsOn(table, r, c) ==
    {k \in 1 .. Len(table.cells) :
        table.cells[k].row_index = r /\ table.cells[k].column_index = c}

\* the places that the span of the k-th cell covers
Covers(table, k) ==
    LET cell == table.cells[k]
        rs == IF cell.row_span > 1 THEN cell.row_span ELSE 1
        cs == IF cell.column_span > 1 THEN cell.column_span ELSE 1
    IN  {<<cell.row_index + dr, cell.column_index + dc>> :
            dr \in 0 .. (rs - 1), dc \in 0 .. (cs - 1)}

\* cell j comes before cell k in row-major order
Earlier(table, j, k) ==
    \/ table.cells[j].row_index < table.cells[k].row_index
    \/ /\ table.cells[j].row_index = table.cells[k].row_index
       /\ table.cells[j].column_index < table.cells[k].column_index

\* the k-th cell is not skipped: no earlier cell that is itself not skipped
\* covers its top-left place
RECURSIVE NotSkipped(_, _)
NotSkipped(table, k) ==
    ~\E j \in 1 .. Len(table.cells) :
        /\ Earlier(table, j, k)
        /\ <<table.cells[k].row_index, table.cells[k].column_index>> \in Covers(table, j)
        /\ NotSkipped(table, j)

\* the element of the k-th cell under the given tag, with rowspan and
\* colspan exactly when the span is more than 1
Element(table, k, tag) ==
    LET cell == table.cells[k] IN
    <<"<" \o tag>>
    \o (IF cell.row_span > 1 THEN <<"rowspan=", ToString(cell.row_span)>> ELSE <<>>)
    \o (IF cell.column_span > 1 THEN <<"colspan=", ToString(cell.column_span)>> ELSE <<>>)
    \o <<">">> \o cell_content(cell) \o <<"</" \o tag \o ">">>

\* the tag of the k-th cell by its own kind
OwnTag(table, k) ==
    IF table.cells[k].kind \in {"columnHeader", "rowHeader", "stubHead"}
    THEN "th" ELSE "td"

\* the elements of row r from column c on: one per cell that is not skipped
RECURSIVE RowElements(_, _, _, _)
RowElements(table, r, c, own) ==
    IF c >= table.column_count THEN <<>>
    ELSE LET at == {k \in CellsOn(table, r, c) : NotSkipped(table, k)} IN
         (IF at = {} THEN <<>>
          ELSE LET k == CHOOSE j \in at : TRUE IN
               Element(table, k, IF own THEN OwnTag(table, k) ELSE "cell"))
         \o RowElements(table, r, c + 1, own)

\* a line with the th and td tags replaced by one name
Untagged(line) ==
    [k \in 1 .. Len(line) |->
        IF line[k] \in {"<th", "<td"} THEN "<cell"
        ELSE IF line[k] \in {"</th>", "</td>"} THEN "</cell>"
        ELSE line[k]]

\* C28: a table with a spanning cell is rendered as HTML with one <tr> per
\* grid row; a cell whose top-left place is covered by an earlier spanning
\* cell is skipped, every other cell is an element of its row exactly once,
\* with rowspan and colspan exactly when the span is more than 1, and no
\* element stands at a place that the span of another element covers.
C28_HtmlTable ==
    (Rendered /\ Spanning(TheTable)) =>
        /\ Len(TableLines) = TheTable.row_count + 2
        /\ TableLines[1] = <<"<table>">>
        /\ TableLines[Len(TableLines)] = <<"</table>">>
        /\ \A r \in 0 .. (TheTable.row_count - 1) :
              Untagged(TableLines[r + 2]) =
                  <<"<tr>">> \o RowElements(TheTable, r, 0, FALSE) \o <<"</tr>">>
        /\ LET shown == {k \in 1 .. Len(TheTable.cells) : NotSkipped(TheTable, k)} IN
           \A j, k \in shown :
              j # k => <<TheTable.cells[k].row_index, TheTable.cells[k].column_index>>
                           \notin Covers(TheTable, j)

\* a table of four cells has been rendered whose first cell spans both
\* columns: the second cell is skipped and the third is an element
C28_Witness ==
    /\ Rendered /\ Spanning(TheTable)
    /\ TheTable.row_count = 2 /\ TheTable.column_count = 2
    /\ Len(TheTable.cells) = 4
    /\ \E k \in CellsOn(TheTable, 0, 0) :
          TheTable.cells[k].column_span = 2 /\ TheTable.cells[k].row_span = 0
    /\ \E k \in CellsOn(TheTable, 0, 1) : ~NotSkipped(TheTable, k)
    /\ \E k \in CellsOn(TheTable, 1, 0) : NotSkipped(TheTable, k)
    /\ Untagged(TableLines[2]) =
           <<"<tr>", "<cell", "colspan=", "2", ">", "a", " ", "b", "</cell>", "</tr>">>

\* C29: in the HTML rendering a cell is a <th> element if and only if its
\* own kind is columnHeader, rowHeader or stubHead; a cell of kind content
\* is a <td> element, also in a row that holds a header-kind cell.
C29_HeaderTagByCell ==
    (Rendered /\ Spanning(TheTable)) =>
        \A r \in 0 .. (TheTable.row_count - 1) :
            TableLines[r + 2] =
                <<"<tr>">> \o RowElements(TheTable, r, 0, TRUE) \o <<"</tr>">>

\* the tables of the result that have a span, as indices
Spanned == {k \in 1 .. Len(di.tables) : di.tables[k].spans # <<>>}

SpanOf(k) == di.tables[k].spans[1]

\* no two spans share a character of the text
NonOverlapping ==
    \A j, k \in Spanned :
        j # k => \/ SpanOf(j).offset + SpanOf(j).length <= SpanOf(k).offset
                 \/ SpanOf(k).offset + SpanOf(k).length <= SpanOf(j).offset

\* the text from offset i on with every span replaced at once by the
\* rendering of its table, the offsets being those of the original text
RECURSIVE Simultaneous(_)
Simultaneous(i) ==
    IF i >= Len(di.content) THEN <<>>
    ELSE LET here == {k \in Spanned : SpanOf(k).offset = i} IN
         IF here = {} THEN <<di.content[i + 1]>> \o Simultaneous(i + 1)
         ELSE LET k == CHOOSE j \in here : TRUE IN
              build_markdown_table(di.tables[k]) \o Simultaneous(i + SpanOf(k).length)

\* C26: for tables whose spans do not overlap, the result is the original
\* text with the span of every table that has one replaced by the table's
\* rendering, as if all replacements were made at once against the original
\* offsets: the text outside the spans stays, in its order, whatever the
\* order of the tables, and a table without a span is not substituted.
C26_SubstitutionOrder ==
    (di.out # None /\ di.content # <<>> /\ NonOverlapping) =>
        di.out[1] = Simultaneous(0)

\* three tables, given in ascending order of their offsets, the last one
\* without a span: both spans have been replaced and the rest of the text
\* stands
C26_Witness ==
    /\ di.out # None /\ di.content = SourceText /\ NonOverlapping
    /\ Len(di.tables) = 3
    /\ di.tables[1].spans = <<[offset |-> 0, length |-> 1]>>
    /\ di.tables[2].spans = <<[offset |-> 3, length |-> 2]>>
    /\ di.tables[3].spans = <<>>
    /\ di.out[1] = build_markdown_table(di.tables[1]) \o <<"c1", "c2">>
                      \o build_markdown_table(di.tables[2])

\* the page loop of the extraction found no page of the hash in the cache
StartedEmpty(tk) == \A k \in 1 .. Len(tk.md) : tk.md[k].kind # "cached"

\* page cache pc holds, under the hash of the extraction tk, exactly one
\* entry per page of the file, and the content is made of the entries' texts
WrittenThrough(pc, tk) ==
    /\ \A i \in AllPages : pc[tk.hash][i] # None <=> i \in PageIdx(tk.hash)
    /\ tk.content = Join([k \in 1 .. page_count(tk.hash) |-> pc[tk.hash][k - 1][1]])

\* the page-by-page extraction of coroutine t ends with success in this step,
\* having found no cached page at its start
ExtractedPages(t) ==
    /\ Returns(t) /\ task'[t].extracted /\ task'[t].route = "pages"
    /\ task'[t].res # "extract_failed"
    /\ StartedEmpty(task'[t])

\* the page cache at the end of the extraction of coroutine t: before the
\* step of the tail when the extraction waited for OCR tasks, else after a
\* tail that did not clear it
CacheAfterExtraction(t) ==
    IF task[t].pc = "ocr" THEN WrittenThrough(cache, task'[t])
    ELSE task'[t].res # "indexed" => WrittenThrough(cache', task'[t])

\* C30 as stated: at the end of a successful page-by-page extraction that
\* started with no cached page of the hash, and before the tail clears them,
\* the page cache holds exactly one entry per page under the hash, each with
\* the text used for the page, converted locally or by OCR.
C30_WriteThrough ==
    [][\A t \in Tasks : ExtractedPages(t) => CacheAfterExtraction(t)]_vars

\* C30, amended: the same, when no other call wrote or deleted page-cache
\* entries of the hash while the extraction waited for its OCR tasks.
C30_WriteThroughUndisturbed ==
    [][\A t \in Tasks :
          (ExtractedPages(t) /\ ~task'[t].dirty) => CacheAfterExtraction(t)]_vars

\* the OCR task of the scanned page has its text after a retry and the text
\* page was converted locally: both are in the cache and the extraction is
\* about to assemble them
C30_Witness ==
    \E t \in Tasks :
        /\ task[t].pc = "ocr" /\ task[t].method = "auto" /\ task[t].hash = "H1"
        /\ ~task[t].dirty /\ StartedEmpty(task[t])
        /\ units[t][1].st = "ok" /\ units[t][1].calls = 2
        /\ cache["H1"][0] = Some(to_markdown_page("H1", 0))
        /\ cache["H1"][1] = Some(gemini_text("H1", 1))

\* the rows of the page cache that belong to bytes h
Entries(pc, h) == {i \in AllPages : pc[h][i] # None}

\* C31: put(h, i, t) followed by get(h, i) returns t, and a repeated put
\* leaves one entry for (h, i) holding the last text; clear(h) returns the
\* number of entries that existed for h and leaves get(h, i) absent for
\* every i; put and clear on h change no entry of another hash, and a get
\* returns the stored text and changes nothing.
C31_PageCacheOperations ==
    [][LET h == reply'.coll
           r == reply'.results[1]
           others == \A g \in Hashes \ {h} : cache'[g] = cache[g]
       IN  /\ reply'.op = "cache_page" =>
                /\ get_cached_page(cache', h, r.page_index) = r.content
                /\ Entries(cache', h) = Entries(cache, h) \cup {r.page_index}
                /\ \A j \in AllPages \ {r.page_index} : cache'[h][j] = cache[h][j]
                /\ others
           /\ reply'.op = "clear_page_cache" =>
                /\ r.rowcount = Cardinality(Entries(cache, h))
                /\ \A j \in AllPages : get_cached_page(cache', h, j) = None
                /\ others
           /\ reply'.op = "get_cached_page" =>
                /\ r.content = cache[h][r.page_index]
                /\ cache' = cache]_vars

\* a clear that returned 2 while the other hash keeps its entry
C31_Witness ==
    /\ reply.op = "clear_page_cache"
    /\ reply.coll = "H1"
    /\ reply.results[1].rowcount = 2
    /\ Entries(cache, "H1") = {}
    /\ cache["H2"][0] = Some(gemini_text("H2", 0))

\* C32: once delete_collection(c) and an indexing call into c that was
\* inside its extraction when the deletion ran have both finished, the
\* vector store holds no chunk of c: no chunk stands for a collection that
\* does not exist.
C32_NoOrphanedChunks ==
    \A c \in AllCollections :
        (Quiet /\ ~collection_exists(collections, c))
            => \A d \in Docs : collection_of(d) = c => vstore[d] = <<>>

\* a force=false call for the file would return "Skipped (unchanged)": there
\* is a record for the pair whose mtime or whose hash is the file's
SkippedAsUnchanged(file_path, collection) ==
    LET existing == get_document_by_path(records, file_path, collection)
    IN  /\ existing # None
        /\ \/ existing[1].file_mtime = fs[file_path].mtime
           \/ existing[1].file_hash = fs[file_path].hash

\* coroutine t has returned a failure from a full reindex of a file that has
\* the bytes and the mtime it had when the call read them
FailedReindex(t) ==
    /\ task[t].pc = "done"
    /\ task[t].extracted
    /\ task[t].res \in {"extract_failed", "empty", "index_failed"}
    /\ fs[task[t].path] = [hash |-> task[t].hash, mtime |-> task[t].mtime]

\* C33 as stated: after an indexing call has returned a failure from a full
\* reindex, forced or not, the next force=false call for the same unchanged
\* file is not skipped as unchanged: it runs the full reindex again.
C33_FailedReindexRunsAgain ==
    \A t \in Tasks :
        FailedReindex(t) => ~SkippedAsUnchanged(task[t].path, task[t].coll)

\* C33: after a force=false indexing call has returned a failure from a full
\* reindex, the next force=false call for the same unchanged file is not
\* skipped as unchanged (a failed forced reindex leaves the record that was
\* there, and that record can be current).
C33_UnforcedFailedReindexRunsAgain ==
    \A t \in Tasks :
        (FailedReindex(t) /\ ~task[t].force)
            => ~SkippedAsUnchanged(task[t].path, task[t].coll)

\* a force=false reindex of a rewritten file has failed after the extraction
\* and the record of the earlier bytes stands
C33_Witness ==
    \E t \in Tasks :
        /\ FailedReindex(t) /\ ~task[t].force
        /\ task[t].res = "index_failed"
        /\ records[DocOf(task[t])] # None
        /\ records[DocOf(task[t])][1].file_hash # task[t].hash

\* no two points of the sequence carry the same chunk index or the same text
NoDuplicates(points) ==
    \A j, k \in 1 .. Len(points) :
        j # k => /\ points[j].chunk_index # points[k].chunk_index
                 /\ points[j].text # points[k].text

\* coroutines t and u have both returned from a full reindex of one doc_id
BothReindexed(t, u) ==
    /\ t # u
    /\ task[t].pc = "done" /\ task[u].pc = "done"
    /\ task[t].extracted /\ task[u].extracted
    /\ DocOf(task[t]) = DocOf(task[u])

\* C34: two indexing coroutines for the same (path, collection) that run at
\* the same time leave no duplicated chunk: the steps from deleting the old
\* chunks to the upsert are one step, so after both have ended the doc_id
\* has no chunk twice, and when both returned success it has the chunks of
\* one indexing, those of the content of one of the two.
C34_NoDuplicatedChunks ==
    \A t, u \in Tasks :
        BothReindexed(t, u) =>
            LET points == vstore[DocOf(task[t])] IN
            /\ NoDuplicates(points)
            /\ (task[t].res = "indexed" /\ task[u].res = "indexed")
                  => \/ points = Points(chunk_text(task[t].content), 1)
                     \/ points = Points(chunk_text(task[u].content), 1)

\* both coroutines were called with force=false for a.pdf, so neither found
\* the other's record when it started, and both have indexed its two chunks
C34_Witness ==
    /\ BothReindexed(1, 2)
    /\ task[1].path = "a.pdf"
    /\ ~task[1].force /\ ~task[2].force
    /\ task[1].res = "indexed" /\ task[2].res = "indexed"
    /\ Len(vstore[DocOf(task[1])]) = 2

\* the OCR tasks waiting out a rate-limit hint
Sleeping == {tp \in Tasks \X AllPages : units[tp[1]][tp[2]].st = "sleep"}

C36_Termination ==
    (Awaited(1) # {}) ~>
        /\ Awaited(1) = {}
        /\ reply.op = "index_files" /\ ~reply.raised
        /\ Len(reply.results) = Len(reply.inputs)
        /\ Inside(1) = {}
        /\ InFlight = {}

\* every index_files call ends, by returning or by raising, and every
\* coroutine it created ends with the permits of both semaphores given back
BatchEndsAndReleases ==
    /\ (Awaited(1) # {}) ~> (Awaited(1) = {})
    /\ (Member(1) # {}) ~> (Member(1) = {} /\ Inside(1) = {} /\ InFlight = {})

\* the step is one of the extraction of coroutine t: the call up to the
\* gather, a step of one of its OCR tasks, or the return of the failure
ExtractionStep(t) ==
    \/ Called(t) /\ task'[t].pc = "ocr"
    \/ task[t].pc = "ocr" /\ task'[t].pc = "ocr" /\ units'[t] # units[t]
    \/ Returns(t) /\ task'[t].res = "extract_failed"

\* C37: an indexing call whose extraction fails changes no chunk and no
\* record, neither of its own doc_id nor of another: no step of the
\* extraction writes to the two stores, and a call with a failed OCR page
\* returns the extraction failure without running the tail.
C37_ExtractionFailureFrame ==
    [][\A t \in Tasks :
          /\ ExtractionStep(t) => (vstore' = vstore /\ records' = records)
          /\ (task[t].pc = "ocr" /\ Returns(t)
                /\ \E i \in AllPages : units[t][i].st = "exc")
                 => task'[t].res = "extract_failed"]_vars

\* a forced reindex of a.pdf has failed on an OCR page; the record and the
\* chunks of a.pdf and those of b.pdf stand
C37_Witness ==
    \E t \in Tasks :
        /\ task[t].pc = "done" /\ task[t].res = "extract_failed"
        /\ task[t].path = "a.pdf" /\ task[t].force
        /\ task[t].failed # <<>>
        /\ \A p \in Paths :
              /\ records[make_doc_id(p, task[t].coll)] # None
              /\ vstore[make_doc_id(p, task[t].coll)] # <<>>

\* the step leaves the record and the chunks of every document outside
\* collection c as they are
OutsideUnchanged(c) ==
    \A d \in Docs :
        collection_of(d) # c => (vstore'[d] = vstore[d] /\ records'[d] = records[d])

\* the step is a remove_documents call that removes the record of e
Removes(e) ==
    /\ Quiet /\ Quiet' /\ collections' = collections
    /\ records[e] # None /\ records'[e] = None

\* C38: the same path in two collections has two doc_ids, two records and
\* two chunk sets; a step of an indexing call into one collection and the
\* removal of a document of one collection leave the record and the chunks
\* of every document of the other collection unchanged.
C38_CollectionIsolation ==
    [][/\ \A p \in Paths : make_doc_id(p, "c") # make_doc_id(p, "d")
       /\ \A d \in Docs : records[d] # None =>
               /\ records[d][1].doc_id = d
               /\ records[d][1].collection = collection_of(d)
       /\ \A t \in Tasks :
               (Called(t) \/ Returns(t)) => OutsideUnchanged(task'[t].coll)
       /\ \A e \in Docs :
               Removes(e) => /\ OutsideUnchanged(collection_of(e))
                             /\ vstore'[e] = <<>>
                             /\ \A d \in Docs \ {e} :
                                    vstore'[d] = vstore[d] /\ records'[d] = records[d]]_vars

\* a.pdf was rewritten and indexed again into collection d, and its document
\* in collection c still has the record and the chunks of the earlier bytes
C38_Witness ==
    LET inC == make_doc_id("a.pdf", "c")
        inD == make_doc_id("a.pdf", "d")
    IN  /\ Quiet
        /\ records[inC] # None /\ records[inD] # None
        /\ records[inC][1].file_hash = "H1" /\ records[inD][1].file_hash = "H2"
        /\ vstore[inC] = Points(chunk_text(Join(<<gemini_text("H1", 0), gemini_text("H1", 1)>>)), 1)
        /\ vstore[inD] = Points(chunk_text(gemini_text("H2", 0)), 1)
        /\ records[make_doc_id("b.pdf", "d")] = None

\* The content of an extraction of bytes h with the method and the client
\* that runs alone: the page loop on an empty page cache, every OCR task
\* answered, the pages assembled in order
AloneContent(h, method, client) ==
    LET lp == page_loop(h, method, client, 0,
                  [cache |-> [g \in Hashes |-> [i \in AllPages |-> None]],
                   md |-> <<>>, units |-> NoUnits])
        pages == TaskPages(lp.md, 1)
        answered == [i \in AllPages |->
                        [lp.units[i] EXCEPT !.st = "ok",
                                            !.result = Some(gemini_text(h, i))]]
    IN  Join(assemble(lp.md, gather(answered, pages, pages), 1, 1).md_text)

\* the texts page i of bytes h can have: its local conversion or its OCR
PageConversions(h, i) == {to_markdown_page(h, i), gemini_text(h, i)}

\* coroutine t has ended with an extraction that returned content
Extracted(t) ==
    /\ task[t].pc = "done"
    /\ task[t].extracted
    /\ task[t].res \in {"indexed", "index_failed"}

\* C39: with two files of the same bytes extracted at the same time, the
\* clears of the hash's page cache by the other call (its force purge, its
\* clear after success) or by a removal never change what a call assembles:
\* the content has every page of the file, in order, each a conversion of
\* that page, and when no page was taken from the cache it is the content of
\* the extraction run alone.
C39_ClearsKeepContent ==
    \A t \in Tasks :
        Extracted(t) =>
            LET h == task[t].hash
                md == task[t].md
            IN  /\ Len(md) = page_count(h)
                /\ \E texts \in [1 .. page_count(h) -> UNION {PageConversions(h, i) : i \in PageIdx(h)}] :
                      /\ \A k \in 1 .. page_count(h) : texts[k] \in PageConversions(h, k - 1)
                      /\ task[t].content = Join(texts)
                /\ (\A k \in 1 .. Len(md) : md[k].kind # "cached")
                      => task[t].content = AloneContent(h, task[t].method, gemini_client)

\* coroutine 1 converted page 0 and wrote it to the cache, the entries of the
\* hash were changed under it while it waited for its OCR task, its tail
\* failed (so it cleared nothing itself) and the cache of the hash is empty:
\* its content is that of the extraction run alone
C39_Witness ==
    /\ Extracted(1) /\ task[1].res = "index_failed"
    /\ task[1].method = "auto"
    /\ task[1].dirty
    /\ task[1].md[1].kind = "pymupdf" /\ task[1].md[2].kind = "task"
    /\ \A i \in AllPages : cache[task[1].hash][i] = None
    /\ task[1].content = AloneContent("H1", "auto", TRUE)
    /\ task[2].pc = "done" /\ task[2].res = "indexed"

====
